---------------------------- MODULE Spec2Model ----------------------------
(***************************************************************************)
(* A model of the BddAgent framework: the Agent control loop               *)
(* (src/game/agent.py), the response parser (src/game/agentLanguage.py),   *)
(* the action registry (src/game/actions.py), the Environment family       *)
(* (src/game/environment.py), Memory (src/game/memory.py) and the          *)
(* delegation and file tools (src/tools).                                  *)
(*                                                                         *)
(* Texts (Python str) are sequences of literal pieces, so that string      *)
(* concatenation and f-strings are \o.  Python values are tagged records   *)
(* [t, v]; a dict is the sequence of its <<key, value>> pairs in insertion *)
(* order.  Timestamps are left out of Memory entries and result records.   *)
(***************************************************************************)
EXTENDS Integers, Sequences, FiniteSets, TLC

(***************************************************************************)
(* Python values                                                           *)
(***************************************************************************)
Lit(s) == <<s>>
PyText(x) == [t |-> "str", v |-> x]
PyStr(s) == PyText(Lit(s))
PyNum(n) == [t |-> "num", v |-> n]
PyBool(b) == [t |-> "bool", v |-> b]
PyNone == [t |-> "none", v |-> 0]
PyDict(pairs) == [t |-> "dict", v |-> pairs]
PyList(items) == [t |-> "list", v |-> items]
\* a Python object json cannot encode (a set, bytes, a Memory, ...)
PyObject(name) == [t |-> "obj", v |-> name]

\* the outcome of a call: a returned value or a raised exception
Return(x) == [ok |-> TRUE, val |-> x]
Raise(e, m) == [ok |-> FALSE, exc |-> e, msg |-> m]

Keys(d) == {d.v[i][1] : i \in 1..Len(d.v)}
HasKey(d, k) == k \in Keys(d)
Lookup(d, k) == d.v[CHOOSE i \in 1..Len(d.v) : d.v[i][1] = k][2]

\* Python's  k in x  for a str k
PyIterable(x) == x.t \in {"dict", "list", "str"}
\* substring test on the literal texts the model uses
SubstringPairs ==
  { <<"tool_name args", "tool_name">>, <<"tool_name args", "args">>,
    <<"function arguments", "function">>, <<"function arguments", "arguments">> }
StrContains(x, k) == Len(x) = 1 /\ <<x[1], k>> \in SubstringPairs
PyIn(k, x) ==
  CASE x.t = "dict" -> HasKey(x, k)
    [] x.t = "list" -> \E i \in 1..Len(x.v) : x.v[i].t = "str" /\ x.v[i].v = Lit(k)
    [] x.t = "str"  -> StrContains(x.v, k)
    [] OTHER        -> FALSE

\* Python's  x[k]  for a str k
PySubscript(x, k) ==
  CASE x.t = "dict" -> IF HasKey(x, k) THEN Return(Lookup(x, k))
                       ELSE Raise("KeyError", Lit(k))
    [] x.t \in {"list", "str"} ->
         Raise("TypeError", Lit("indices must be integers"))
    [] OTHER -> Raise("TypeError", Lit("object is not subscriptable"))

(***************************************************************************)
(* json.loads on the texts a model function returns in this model.  Each   *)
(* row is what CPython's json.loads gives for that literal.                *)
(***************************************************************************)
TFree == "Sure, I am done."
TTerm == "{\"tool_name\": \"terminate\", \"args\": {\"message\": \"done\"}}"
TWork == "{\"tool_name\": \"work\", \"args\": {}}"
TGhost == "{\"tool_name\": \"ghost\", \"args\": {}}"
TList == "{\"tool_name\": \"list_files\", \"args\": {}}"
THand == "{\"tool_name\": \"hand_off_to_agent\", \"args\": {\"agent_name\": \"sub\", \"task\": \"T\"}}"
TRefl == "{\"tool_name\": \"call_agent_with_reflection\", \"args\": {\"agent_name\": \"sub\", \"task\": \"T\"}}"
TCall == "{\"tool_name\": \"call_agent\", \"args\": {\"agent_name\": \"sub\", \"task\": \"T\"}}"
TBack == "{\"tool_name\": \"hand_off_to_agent\", \"args\": {\"agent_name\": \"main\", \"task\": \"T\"}}"
TNum == "5"
TTrue == "true"
TNull == "null"
TEmptyObj == "{}"
TNoArgs == "{\"tool_name\": \"work\"}"
TNested == "{\"function\": {\"name\": \"work\", \"arguments\": {\"a\": 1}}}"
TNestedTop == "{\"function\": {\"name\": \"work\", \"arguments\": {\"a\": 1}}, \"arguments\": {}}"
TFuncStr == "{\"function\": \"work\", \"arguments\": {}}"
TFuncNoName == "{\"function\": {}, \"arguments\": {}}"
TArr == "[1]"
TArrKeys == "[\"tool_name\", \"args\"]"
TStr == "\"hello\""
TStrKeys == "\"tool_name args\""
TStrFunc == "\"function arguments\""
TListName == "{\"tool_name\": [\"a\"], \"args\": {}}"
TArgsNum == "{\"tool_name\": \"work\", \"args\": 5}"
TEmpty == ""
TProse == "I will call {\"tool_name\": \"work\", \"args\": {}} next"
TSel == "{\"tool_name\": \"call_agent_with_selected_context\", \"args\": {\"agent_name\": \"sub\", \"task\": \"T\"}}"
\* answers to the memory selection prompt
SFirst == "{\"selected_memories\": [\"mem_0\"], \"reasoning\": \"r\"}"
SSwapped == "{\"selected_memories\": [\"mem_2\", \"mem_0\"], \"reasoning\": \"r\"}"
SUnknown == "{\"selected_memories\": [\"mem_1\", \"mem_9\", \"mem_1\"], \"reasoning\": \"r\"}"
SNone == "{\"selected_memories\": [], \"reasoning\": \"r\"}"
SNoReason == "{\"selected_memories\": [\"mem_0\"]}"
SNoSelected == "{\"reasoning\": \"r\"}"
SString == "{\"selected_memories\": \"mem_0\", \"reasoning\": \"r\"}"

Invocation(name, args) == PyDict(<< <<"tool_name", name>>, <<"args", args>> >>)
DelegateArgs == PyDict(<< <<"agent_name", PyStr("sub")>>, <<"task", PyStr("T")>> >>)
Selection(ids) ==
  PyDict(<< <<"selected_memories", ids>>, <<"reasoning", PyStr("r")>> >>)
DelegateBackArgs == PyDict(<< <<"agent_name", PyStr("main")>>, <<"task", PyStr("T")>> >>)
NestedFn == PyDict(<< <<"name", PyStr("work")>>,
                      <<"arguments", PyDict(<< <<"a", PyNum(1)>> >>)>> >>)

JsonTable ==
  [ x \in { TTerm, TWork, TGhost, TList, THand, TRefl, TCall, TNum, TTrue, TNull,
            TEmptyObj, TNoArgs, TNested, TNestedTop, TFuncStr, TFuncNoName, TArr,
            TArrKeys, TStr, TStrKeys, TStrFunc, TListName, TArgsNum, TSel, TBack, SFirst,
            SSwapped, SUnknown, SNone, SNoReason, SNoSelected, SString } |->
    CASE x = TTerm  -> Invocation(PyStr("terminate"),
                                  PyDict(<< <<"message", PyStr("done")>> >>))
      [] x = TWork  -> Invocation(PyStr("work"), PyDict(<< >>))
      [] x = TGhost -> Invocation(PyStr("ghost"), PyDict(<< >>))
      [] x = TList  -> Invocation(PyStr("list_files"), PyDict(<< >>))
      [] x = THand  -> Invocation(PyStr("hand_off_to_agent"), DelegateArgs)
      [] x = TRefl  -> Invocation(PyStr("call_agent_with_reflection"), DelegateArgs)
      [] x = TCall  -> Invocation(PyStr("call_agent"), DelegateArgs)
      [] x = TNum   -> PyNum(5)
      [] x = TTrue  -> PyBool(TRUE)
      [] x = TNull  -> PyNone
      [] x = TEmptyObj -> PyDict(<< >>)
      [] x = TNoArgs -> PyDict(<< <<"tool_name", PyStr("work")>> >>)
      [] x = TNested -> PyDict(<< <<"function", NestedFn>> >>)
      [] x = TNestedTop -> PyDict(<< <<"function", NestedFn>>,
                                     <<"arguments", PyDict(<< >>)>> >>)
      [] x = TFuncStr -> PyDict(<< <<"function", PyStr("work")>>,
                                   <<"arguments", PyDict(<< >>)>> >>)
      [] x = TFuncNoName -> PyDict(<< <<"function", PyDict(<< >>)>>,
                                      <<"arguments", PyDict(<< >>)>> >>)
      [] x = TArr -> PyList(<< PyNum(1) >>)
      [] x = TArrKeys -> PyList(<< PyStr("tool_name"), PyStr("args") >>)
      [] x = TStr -> PyStr("hello")
      [] x = TStrKeys -> PyStr("tool_name args")
      [] x = TStrFunc -> PyStr("function arguments")
      [] x = TListName -> Invocation(PyList(<< PyStr("a") >>), PyDict(<< >>))
      [] x = TArgsNum -> Invocation(PyStr("work"), PyNum(5))
      [] x = TSel -> Invocation(PyStr("call_agent_with_selected_context"), DelegateArgs)
      [] x = TBack -> Invocation(PyStr("hand_off_to_agent"), DelegateBackArgs)
      [] x = SFirst -> Selection(PyList(<< PyStr("mem_0") >>))
      [] x = SSwapped -> Selection(PyList(<< PyStr("mem_2"), PyStr("mem_0") >>))
      [] x = SUnknown ->
           Selection(PyList(<< PyStr("mem_1"), PyStr("mem_9"), PyStr("mem_1") >>))
      [] x = SNone -> Selection(PyList(<< >>))
      [] x = SNoReason ->
           PyDict(<< <<"selected_memories", PyList(<< PyStr("mem_0") >>)>> >>)
      [] x = SNoSelected -> PyDict(<< <<"reasoning", PyStr("r")>> >>)
      [] x = SString -> Selection(PyStr("mem_0")) ]

AllTexts == DOMAIN JsonTable \cup {TFree, TEmpty, TProse}

\* every other text (free text, the empty text, an f-string error text of
\* several pieces) is no JSON document: json.loads raises JSONDecodeError
JsonLoads(text) ==
  IF Len(text) = 1 /\ text[1] \in DOMAIN JsonTable
  THEN Return(JsonTable[text[1]])
  ELSE Raise("JSONDecodeError", Lit("Expecting value"))

(***************************************************************************)
(* AgentFunctionCallingActionLanguage.parse_response                       *)
(***************************************************************************)
\* the terminate invocation without the text of the response
TerminateFallbackNoMessage(response) ==
  Invocation(PyStr("terminate"), PyDict(<< >>))

TerminateFallback(response) ==
  Invocation(PyStr("terminate"), PyDict(<< <<"message", PyText(response)>> >>))

\* {"tool_name": parsed["function"]["name"],
\*  "args": parsed["function"]["arguments"]}
NestedFields(name, arguments) ==
  IF ~name.ok THEN name
  ELSE IF ~arguments.ok THEN arguments
  ELSE Return(Invocation(name.val, arguments.val))

NestedFunction(fn) ==
  IF ~fn.ok THEN fn
  ELSE NestedFields(PySubscript(fn.val, "name"), PySubscript(fn.val, "arguments"))

NestedShape(parsed) == NestedFunction(PySubscript(parsed, "function"))

ParseParsed(parsed, response) ==
  IF ~PyIterable(parsed)
  THEN Raise("TypeError", Lit("argument is not iterable"))
  ELSE IF PyIn("tool_name", parsed) /\ PyIn("args", parsed)
  THEN Return(parsed)
  ELSE IF PyIn("function", parsed) /\ PyIn("arguments", parsed)
  THEN NestedShape(parsed)
  ELSE Return(TerminateFallback(response))

\* parse_response without the except clause
ParseLoadedUncaught(loaded, response) ==
  IF loaded.ok THEN ParseParsed(loaded.val, response) ELSE loaded

\* the try block around json.loads: only JSONDecodeError is caught
ParseLoaded(loaded, response) ==
  IF loaded.ok
  THEN ParseParsed(loaded.val, response)
  ELSE IF loaded.exc = "JSONDecodeError"
       THEN Return(TerminateFallback(response))
       ELSE loaded

ParseResponse(response) == ParseLoaded(JsonLoads(response), response)

(***************************************************************************)
(* json.dumps, as far as the loop depends on it: the text of a value, or   *)
(* TypeError for a value that holds an object json cannot encode.  The     *)
(* escapes json.dumps writes inside a str are left out.                    *)
(***************************************************************************)
RECURSIVE Serializable(_)
Serializable(x) ==
  CASE x.t = "obj"  -> FALSE
    [] x.t = "list" -> \A i \in 1..Len(x.v) : Serializable(x.v[i])
    [] x.t = "dict" -> \A i \in 1..Len(x.v) : Serializable(x.v[i][2])
    [] OTHER        -> TRUE

RECURSIVE DumpsText(_)
DumpsText(x) ==
  LET RECURSIVE Items(_, _)
      Items(xs, i) ==
        IF i > Len(xs) THEN << >>
        ELSE (IF i > 1 THEN Lit(", ") ELSE << >>) \o DumpsText(xs[i]) \o Items(xs, i + 1)
      RECURSIVE Pairs(_, _)
      Pairs(ps, i) ==
        IF i > Len(ps) THEN << >>
        ELSE (IF i > 1 THEN Lit(", ") ELSE << >>) \o <<"\"", ps[i][1], "\": ">>
             \o DumpsText(ps[i][2]) \o Pairs(ps, i + 1)
  IN CASE x.t = "str"  -> Lit("\"") \o x.v \o Lit("\"")
       [] x.t = "num"  -> Lit(ToString(x.v))
       [] x.t = "bool" -> Lit(IF x.v THEN "true" ELSE "false")
       [] x.t = "none" -> Lit("null")
       [] x.t = "list" -> Lit("[") \o Items(x.v, 1) \o Lit("]")
       [] x.t = "dict" -> Lit("{") \o Pairs(x.v, 1) \o Lit("}")
       [] OTHER        -> Lit("?")

JsonDumps(x) ==
  IF Serializable(x) THEN Return(DumpsText(x))
  ELSE Raise("TypeError", Lit("Object is not JSON serializable"))

(***************************************************************************)
(* Bounds of the model                                                     *)
(***************************************************************************)
MaxIterations == 2
MaxCaps == 2
SubIterations == 1

(***************************************************************************)
(* Actions and registries (src/game/actions.py), the tool catalog          *)
(***************************************************************************)
\* the declared parameters of each tool function and those without default
\* (translate, parse_gherkin and generate_step_definitions are functions a
\* caller registers: one that declares a context property, and one of each
\* operation set of AIReviewBDDEnvironment)
ToolParams ==
  [ terminate |-> [all |-> {"message"}, required |-> {}],
    work |-> [all |-> {"task"}, required |-> {}],
    list_files |-> [all |-> {"action_context", "directory"},
                    required |-> {"action_context"}],
    call_agent |-> [all |-> {"action_context", "agent_name", "task"},
                    required |-> {"action_context", "agent_name", "task"}],
    call_agent_with_reflection |->
                   [all |-> {"action_context", "agent_name", "task"},
                    required |-> {"action_context", "agent_name", "task"}],
    hand_off_to_agent |->
                   [all |-> {"action_context", "agent_name", "task"},
                    required |-> {"action_context", "agent_name", "task"}],
    call_agent_with_selected_context |->
                   [all |-> {"action_context", "agent_name", "task"},
                    required |-> {"action_context", "agent_name", "task"}],
    translate |-> [all |-> {"text", "_target_language"}, required |-> {"text"}],
    parse_gherkin |-> [all |-> {"text"}, required |-> {}],
    generate_step_definitions |->
                   [all |-> {"scenarios", "previous_attempt", "review_feedback"},
                    required |-> {}] ]

DelegationTools == {"call_agent", "call_agent_with_reflection", "hand_off_to_agent"}
SelectiveTool == "call_agent_with_selected_context"

\* Action(name, function, ..., terminal): the function is the catalog's
\* tool of the same name
Action(name, terminal) == [name |-> name, terminal |-> terminal]

\* a register that keeps the action a name was first registered with
RegisterKeepsFirst(actions, action) ==
  [n \in DOMAIN actions \cup {action.name} |->
     IF n \in DOMAIN actions THEN actions[n] ELSE action]

\* ActionRegistry.register
Register(actions, action) ==
  [n \in DOMAIN actions \cup {action.name} |->
     IF n = action.name THEN action ELSE actions[n]]

EmptyRegistry == [n \in {} |-> Action(n, FALSE)]

WorkerRegistry ==
  Register(Register(Register(Register(Register(EmptyRegistry,
    Action("work", FALSE)), Action("list_files", FALSE)),
    Action("call_agent", FALSE)), Action("call_agent_with_reflection", FALSE)),
    Action("hand_off_to_agent", FALSE))

\* DecoratorActionRegistry.register_terminate_tool: the catalog's terminate
\* tool is declared terminal
RegisterTerminateTool(actions) == Register(actions, Action("terminate", TRUE))

\* a lookup in the manner of dict.get
RegistryGetOrNone(actions, name) ==
  IF name.t = "str" /\ Len(name.v) = 1 /\ name.v[1] \in DOMAIN actions
  THEN Return(actions[name.v[1]])
  ELSE Return(PyNone)

\* ActionRegistry.get_action
RegistryGetAction(actions, name) ==
  IF name.t \in {"list", "dict"}
  THEN Raise("TypeError", Lit("unhashable type"))
  ELSE IF name.t = "str" /\ Len(name.v) = 1 /\ name.v[1] \in DOMAIN actions
  THEN Return(actions[name.v[1]])
  ELSE Raise("ValueError", Lit("Action not found in registry"))

(***************************************************************************)
(* Agent.get_action, Agent.should_terminate                                *)
(***************************************************************************)
GetActionFound(action, invocation) ==
  IF ~action.ok THEN action
  ELSE Return([action |-> action.val, invocation |-> invocation.val])

GetActionNamed(actions, name, invocation) ==
  IF ~name.ok THEN name
  ELSE GetActionFound(RegistryGetAction(actions, name.val), invocation)

GetActionParsed(actions, invocation) ==
  IF ~invocation.ok THEN invocation
  ELSE GetActionNamed(actions, PySubscript(invocation.val, "tool_name"), invocation)

GetAction(actions, response) == GetActionParsed(actions, ParseResponse(response))

\* should_terminate whose except branch answers True
TerminalOnError(got) == IF got.ok THEN got.val.action.terminal ELSE TRUE

\* should_terminate that answers False for every action
NeverTerminal(got) == FALSE

ShouldTerminateGot(got) == IF got.ok THEN got.val.action.terminal ELSE FALSE

ShouldTerminate(actions, response) == ShouldTerminateGot(GetAction(actions, response))

(***************************************************************************)
(* Environments (src/game/environment.py)                                  *)
(***************************************************************************)
EnvTypes == {"Environment", "ActionContextEnvironment", "AIReviewBDDEnvironment"}

\* hasattr(environment, 'execute_with_ai_review')
HasExecuteWithAiReview(env) == env = "AIReviewBDDEnvironment"
\* len(environment.execute_action.__code__.co_varnames): parameters and locals
CoVarnames(env) == IF env = "ActionContextEnvironment" THEN 10 ELSE 5
\* the positional parameters execute_action declares after self
ExecuteActionParams(env) == IF env = "ActionContextEnvironment" THEN 3 ELSE 2
\* the positional parameters execute_with_ai_review declares after self
ExecuteWithAiReviewParams == 3

\* Environment.format_result
FormatResult(result) ==
  PyDict(<< <<"tool_executed", PyBool(TRUE)>>, <<"result", result>>,
            <<"timestamp", PyStr("ts")>> >>)

\* the except branch of ActionContextEnvironment.execute_action
ContextFailure(e) ==
  PyDict(<< <<"tool_executed", PyBool(FALSE)>>, <<"error", PyText(e.msg)>> >>)

\* the except branch of Agent.handle_agent_response
HandleFailure(e, response) ==
  PyDict(<< <<"tool_executed", PyBool(FALSE)>>,
            <<"error", PyText(Lit("Error handling agent response: ") \o e.msg)>>,
            <<"response", PyText(response)>> >>)

ArityError == Raise("TypeError", Lit("takes fewer positional arguments than given"))

\* which entry point handle_agent_response calls, and with how many arguments
DispatchRoute(env) ==
  IF HasExecuteWithAiReview(env)
  THEN [method |-> "execute_with_ai_review", given |-> 4,
        declared |-> ExecuteWithAiReviewParams]
  ELSE IF CoVarnames(env) > 3
  THEN [method |-> "execute_action", given |-> 3,
        declared |-> ExecuteActionParams(env)]
  ELSE [method |-> "execute_action", given |-> 2,
        declared |-> ExecuteActionParams(env)]

\* injection that does not ask has_named_parameter
InjectedUnasked(tool, ctxKeys) == {"action_context"} \cup {"_" \o k : k \in ctxKeys}

\* ActionContextEnvironment.execute_action up to the call of the tool: the
\* keyword arguments the tool function is called with, or the exception
\* raised before the tool body runs
Injected(tool, ctxKeys) ==
  (IF "action_context" \in ToolParams[tool].all THEN {"action_context"} ELSE {})
  \cup {p \in ToolParams[tool].all : \E k \in ctxKeys : p = "_" \o k}

\* function(**args_copy): Python's binding of keyword arguments
BindKeywords(tool, given) ==
  IF given \subseteq ToolParams[tool].all /\ ToolParams[tool].required \subseteq given
  THEN Return(given)
  ELSE Raise("TypeError", Lit("unexpected or missing keyword argument"))

InjectedArgs(tool, args, ctxKeys) ==
  IF args.t # "dict"
  THEN Raise("AttributeError", Lit("object has no attribute 'copy'"))
  ELSE BindKeywords(tool, Keys(args) \cup Injected(tool, ctxKeys))

(***************************************************************************)
(* Tools (src/tools)                                                       *)
(***************************************************************************)
\* otherTools.terminate
TerminateTool(args) ==
  LET message == IF HasKey(args, "message")
                 THEN (IF Lookup(args, "message").t = "str"
                       THEN Lookup(args, "message").v ELSE Lit("<value>"))
                 ELSE Lit("Task completed successfully")
  IN Return(PyText(message \o Lit("\n\nAgent session completed.")))

\* an integrator's tool: what its body may do
WorkOutcomes ==
  { Return(PyStr("fine")), Return(PyObject("set")), Raise("RuntimeError", Lit("boom")) }

\* fileTools.list_files: the listing succeeds, or os.listdir raises and the
\* tool returns the error text in a list
ListFilesOutcomes == {"listed", "oserror"}
ListFilesEntry ==
  [role |-> "system", content |-> Lit("Directory '.' contains 1 files: a.py"),
   type |-> "-", agent_source |-> "-"]

(***************************************************************************)
(* State.  stack is the chain of Agent.run calls in progress (the last is  *)
(* the one running; a delegation tool pushes the sub-agent's run), mems    *)
(* the Memory objects by identity, cfg the configuration of the agent      *)
(* "main", vocab what its model function may answer.  History: origin and  *)
(* nruns (who appended each Memory entry), and in a frame answers (what    *)
(* each call of generate_response returned or raised), said (the           *)
(* responses the loop went on with), hook (the hook that raised), termCalls   *)
(* (calls of each terminate hook), startLen, raisedBy and prompted (the    *)
(* Memory part of the last prompt), selection and asks (what               *)
(* prompt_llm_for_json gave the selective call, after how many model calls), *)
(* staged and review (the iterations in which review_and_execute_staged    *)
(* was called, and what its last call returned or raised).                 *)
(***************************************************************************)
VARIABLES stack, mems, origin, cfg, vocab, nruns, call, tx, reg

vars == <<stack, mems, origin, cfg, vocab, nruns, call, tx, reg>>

\* no Environment is called directly, no ActionTransaction exists
NoCall == [pc |-> "none"]
NoTransaction == [pc |-> "none"]
NoRegistry == [pc |-> "none"]

AgentNames == {"main", "sub"}

\* the agent "sub": a context-injecting worker with the terminate tool
SubConf ==
  [ environment |-> "ActionContextEnvironment",
    actions |-> RegisterTerminateTool(
                  Register(Register(EmptyRegistry, Action("work", FALSE)),
                           Action("hand_off_to_agent", FALSE))),
    max_iterations |-> SubIterations,
    ncaps |-> 0,
    staged |-> "none" ]

Conf(agent) == IF agent = "main" THEN cfg ELSE SubConf

Says(x) == Return(Lit(x))
LlmDown == Raise("ConnectionError", Lit("timeout"))
LoopVocab == { Says(TTerm), Says(TWork), Says(TGhost), Says(TList), Says(THand),
               Says(TRefl), Says(TCall), Says(TFree), Says(TNum), LlmDown }
WideVocab == { Says(x) : x \in AllTexts }
CapVocab == { Says(TTerm), Says(TWork), Says(TFree) }
SubVocab == { Says(TTerm), Says(THand), Says(TBack) }
Vocab(agent) == IF agent = "main" THEN vocab ELSE SubVocab

\* add_memory that inserts at the front
AddMemoryFront(ms, mid, entry) == [ms EXCEPT ![mid] = <<entry>> \o @]

\* Memory.add_memory, with the history of who appended
Entry(role, content) ==
  [role |-> role, content |-> content, type |-> "-", agent_source |-> "-"]
AddMemory(ms, mid, entry) == [ms EXCEPT ![mid] = Append(@, entry)]
Tag(by, f) == [by |-> by, rid |-> f.rid, iter |-> f.iteration]
AddOrigin(og, mid, tag) == [og EXCEPT ![mid] = Append(@, tag)]

\* dispatch stopped before any tool body ran
NoTool(result) == [run |-> FALSE, result |-> result, tool |-> "-", args |-> PyNone]

NewFrame(agent, mid, props, task, rid, startLen) ==
  [ agent |-> agent, rid |-> rid, mem |-> mid, props |-> props, task |-> task,
    pc |-> "start", iteration |-> 0, ctxKeys |-> {}, response |-> << >>,
    result |-> PyNone, said |-> << >>, answers |-> << >>, parsed |-> Return(PyNone), hook |-> "-",
    termCalls |-> [i \in 1..Conf(agent).ncaps |-> 0],
    pre |-> NoTool(PyNone), exit |-> "-", outcome |-> "running",
    startLen |-> startLen, pend |-> "-", raisedBy |-> "-", prompted |-> << >>,
    selection |-> Return(PyNone), asks |-> 0,
    staged |-> << >>, review |-> Return(PyNone) ]

depth == Len(stack)
top == stack[depth]
SetTop(f) == [stack EXCEPT ![depth] = f]

\* The run of agent "main" on a fresh Memory, in one of five set-ups: any
\* tool and delegation without capabilities; capabilities whose hooks may
\* raise; one iteration on every text of the json.loads table; the
\* selective delegation tool; an Environment of the integrator that has
\* review_and_execute_staged, with current_task_id empty or set.
Registries == {WorkerRegistry, RegisterTerminateTool(WorkerRegistry)}
SelectiveRegistry ==
  RegisterTerminateTool(Register(Register(EmptyRegistry, Action("work", FALSE)),
                                 Action(SelectiveTool, FALSE)))
SelectVocab == { Says(TSel), Says(TWork), Says(TTerm) }
StagedVocab == { Says(TWork), Says(TTerm), Says(TGhost) }

Init ==
  /\ \/ /\ vocab = LoopVocab
        /\ cfg \in [ environment : EnvTypes, actions : Registries,
                     max_iterations : 0..MaxIterations, ncaps : {0},
                     staged : {"none"} ]
     \/ /\ vocab = CapVocab
        /\ cfg \in [ environment : EnvTypes, actions : Registries,
                     max_iterations : 0..MaxIterations, ncaps : 1..MaxCaps,
                     staged : {"none"} ]
     \/ /\ vocab = WideVocab
        /\ cfg \in [ environment : EnvTypes, actions : Registries,
                     max_iterations : {1}, ncaps : {0}, staged : {"none"} ]
     \/ /\ vocab = SelectVocab
        /\ cfg \in [ environment : {"ActionContextEnvironment"},
                     actions : {SelectiveRegistry},
                     max_iterations : 1..MaxIterations, ncaps : {0},
                     staged : {"none"} ]
     \/ /\ vocab = StagedVocab
        /\ cfg \in [ environment : {"ActionContextEnvironment"},
                     actions : Registries,
                     max_iterations : 1..MaxIterations, ncaps : {0},
                     staged : {"idle", "task"} ]
  /\ mems = << << >> >>
  /\ origin = << << >> >>
  /\ nruns = 1
  /\ call = NoCall
  /\ tx = NoTransaction
  /\ reg = NoRegistry
  /\ stack = << NewFrame("main", 1, {"agent_registry", "target_language"},
                         Lit("X"), 1, 0) >>

(***************************************************************************)
(* Agent.run (src/game/agent.py)                                           *)
(***************************************************************************)
\* run up to the loop: set_current_task, the ActionContext, the init hooks
RunStart ==
  /\ top.pc = "start"
  /\ mems' = AddMemory(mems, top.mem, Entry("user", top.task))
  /\ origin' = AddOrigin(origin, top.mem, Tag("task", top))
  /\ stack' = SetTop([top EXCEPT !.pc = "head",
                        !.ctxKeys = {"memory", "llm", "environment_type"} \cup top.props])
  /\ UNCHANGED <<cfg, vocab, nruns, call, tx, reg>>

\* a Capability's init hook raises: the exception leaves run before the try
CapabilityInitRaises ==
  /\ top.pc = "start"
  /\ Conf(top.agent).ncaps > 0
  /\ mems' = AddMemory(mems, top.mem, Entry("user", top.task))
  /\ origin' = AddOrigin(origin, top.mem, Tag("task", top))
  /\ stack' = SetTop([top EXCEPT !.pc = "done", !.outcome = "raised",
                        !.raisedBy = "init", !.hook = "init"])
  /\ UNCHANGED <<cfg, vocab, nruns, call, tx, reg>>

\* for iteration in range(self.max_iterations)
LoopHead ==
  /\ top.pc = "head"
  /\ stack' = SetTop(IF top.iteration < Conf(top.agent).max_iterations
                     THEN [top EXCEPT !.iteration = @ + 1, !.pc = "prompt"]
                     ELSE [top EXCEPT !.exit = "exhausted", !.pc = "finally"])
  /\ UNCHANGED <<mems, origin, cfg, vocab, nruns, call, tx, reg>>

\* prompt_llm_for_action that returns str(e) without the prefix
PromptLlmForActionBare(answer) ==
  IF answer.ok THEN answer.val ELSE answer.msg

\* Agent.prompt_llm_for_action
PromptLlmForAction(answer) ==
  IF answer.ok THEN answer.val
  ELSE Lit("Error generating response: ") \o answer.msg

\* a prompt built from the newest Memory entry alone
FormatMemoryLast(items) ==
  IF items = << >> THEN items
  ELSE << [role |-> IF items[Len(items)].role = "assistant" THEN "assistant" ELSE "user",
           content |-> items[Len(items)].content] >>

\* AgentFunctionCallingActionLanguage.format_memory: one message per Memory
\* entry, in order; an entry without content is sent as json.dumps(item)
FormatMemory(items) ==
  [i \in 1..Len(items) |->
     [role |-> IF items[i].role \in {"assistant", "environment"}
               THEN "assistant" ELSE "user",
      content |-> IF items[i].content = << >>
                  THEN <<"json.dumps", items[i].role, items[i].type>>
                  ELSE items[i].content]]

\* process_prompt hooks, construct_prompt, the model call; prompted is the
\* Memory part of the prompt last sent
Prompt ==
  /\ top.pc = "prompt"
  /\ \E answer \in Vocab(top.agent) :
       stack' = SetTop([top EXCEPT !.response = PromptLlmForAction(answer),
                          !.said = Append(@, PromptLlmForAction(answer)),
                          !.answers = Append(@, answer),
                          !.prompted = FormatMemory(mems[top.mem]),
                          !.pc = "response"])
  /\ UNCHANGED <<mems, origin, cfg, vocab, nruns, call, tx, reg>>

\* a process_prompt, process_response or process_action hook raises:
\* except Exception in run
HookRaises ==
  /\ top.pc \in {"prompt", "response", "action"}
  /\ Conf(top.agent).ncaps > 0
  /\ stack' = SetTop([top EXCEPT !.exit = "exception", !.hook = "process",
                        !.pc = "finally"])
  /\ UNCHANGED <<mems, origin, cfg, vocab, nruns, call, tx, reg>>

\* KeyboardInterrupt while the model call is awaited: except KeyboardInterrupt
Interrupt ==
  /\ top.pc = "prompt"
  /\ stack' = SetTop([top EXCEPT !.exit = "interrupt", !.pc = "finally"])
  /\ UNCHANGED <<mems, origin, cfg, vocab, nruns, call, tx, reg>>

\* Agent.handle_agent_response up to the body of the tool: the tool to run
\* with its arguments, or the failure result returned without running it
PreToolBound(bound, tool, args) ==
  IF ~bound.ok THEN NoTool(ContextFailure(bound))
  ELSE [run |-> TRUE, result |-> PyNone, tool |-> tool, args |-> args]

PreToolCall(f, tool, args) ==
  PreToolBound(InjectedArgs(tool, args, f.ctxKeys), tool, args)

PreToolRouted(f, got, route) ==
  IF ~got.ok THEN NoTool(HandleFailure(got, f.response))
  ELSE IF route.given # route.declared
  THEN NoTool(HandleFailure(ArityError, f.response))
  ELSE PreToolCall(f, got.val.action.name, Lookup(got.val.invocation, "args"))

PreTool(f) ==
  PreToolRouted(f, GetAction(Conf(f.agent).actions, f.response),
                DispatchRoute(Conf(f.agent).environment))

\* the first lines of every delegation tool: the registry and the agent
\* AgentRegistry.get_agent
GetAgent(name) ==
  IF name.t = "str" /\ Len(name.v) = 1 /\ name.v[1] \in AgentNames
  THEN Return(name.v[1])
  ELSE Raise("ValueError", Lit("Agent not found in registry."))

\* a lookup that finds the registry in every Action Context
DelegationLookupAnywhere(f, args) == GetAgent(Lookup(args, "agent_name"))

DelegationLookup(f, args) ==
  IF "agent_registry" \notin f.ctxKeys
  THEN Raise("ValueError", Lit("No agent registry found in action context."))
  ELSE GetAgent(Lookup(args, "agent_name"))

\* process_response hooks, then Agent.handle_agent_response up to the tool
Resolve ==
  /\ top.pc = "response"
  /\ stack' = SetTop([top EXCEPT !.pre = PreTool(top),
                        !.parsed = ParseResponse(top.response), !.pc = "dispatch"])
  /\ UNCHANGED <<mems, origin, cfg, vocab, nruns, call, tx, reg>>

\* dispatch that ends without a tool body running, or in a delegation tool
\* that raises before it starts the sub-agent
DispatchFails ==
  /\ top.pc = "dispatch"
  /\ ~top.pre.run
  /\ stack' = SetTop([top EXCEPT !.result = top.pre.result, !.pc = "action"])
  /\ UNCHANGED <<mems, origin, cfg, vocab, nruns, call, tx, reg>>

DelegationFails ==
  /\ top.pc = "dispatch"
  /\ top.pre.run
  /\ top.pre.tool \in DelegationTools \cup {SelectiveTool}
  /\ ~DelegationLookup(top, top.pre.args).ok
  /\ stack' = SetTop([top EXCEPT
                        !.result = ContextFailure(DelegationLookup(top, top.pre.args)),
                        !.pc = "action"])
  /\ UNCHANGED <<mems, origin, cfg, vocab, nruns, call, tx, reg>>

DispatchTerminate ==
  /\ top.pc = "dispatch"
  /\ top.pre.run
  /\ top.pre.tool = "terminate"
  /\ stack' = SetTop([top EXCEPT !.result = FormatResult(TerminateTool(top.pre.args).val),
                        !.pc = "action"])
  /\ UNCHANGED <<mems, origin, cfg, vocab, nruns, call, tx, reg>>

DispatchWork ==
  /\ top.pc = "dispatch"
  /\ top.pre.run
  /\ top.pre.tool = "work"
  /\ \E o \in WorkOutcomes :
     stack' = SetTop([top EXCEPT
                        !.result = IF o.ok THEN FormatResult(o.val)
                                   ELSE ContextFailure(o),
                        !.pc = "action"])
  /\ UNCHANGED <<mems, origin, cfg, vocab, nruns, call, tx, reg>>

DispatchListFiles ==
  /\ top.pc = "dispatch"
  /\ top.pre.run
  /\ top.pre.tool = "list_files"
  /\ \E o \in ListFilesOutcomes :
     IF o = "listed"
     THEN /\ mems' = AddMemory(mems, top.mem, ListFilesEntry)
          /\ origin' = AddOrigin(origin, top.mem, Tag("tool", top))
          /\ stack' = SetTop([top EXCEPT
                                !.result = FormatResult(PyList(<<PyStr("a.py")>>)),
                                !.pc = "action"])
     ELSE /\ UNCHANGED <<mems, origin>>
          /\ stack' = SetTop([top EXCEPT
                                !.result = FormatResult(PyList(
                                   <<PyStr("Error listing files: not found")>>)),
                                !.pc = "action"])
  /\ UNCHANGED <<cfg, vocab, nruns, call, tx, reg>>

\* a sub-run that is handed the properties of the caller's Action Context
SubPropsOfCaller(f) == f.props

\* the action_context_props of the sub-agent's run: every delegation tool
\* calls agent_run with user_input and memory only
SubProps(f) == {}

\* a delegation tool calls agent_run(user_input=task, memory=...): the
\* sub-agent's run starts on a fresh Memory, or on the caller's (hand-off)
Delegate ==
  /\ top.pc = "dispatch"
  /\ top.pre.run
  /\ top.pre.tool \in DelegationTools
  /\ DelegationLookup(top, top.pre.args).ok
  /\ LET sub == DelegationLookup(top, top.pre.args).val
         task == Lookup(top.pre.args, "task").v
         shared == top.pre.tool = "hand_off_to_agent"
         mid == IF shared THEN top.mem ELSE Len(mems) + 1
     IN /\ mems' = IF shared THEN mems ELSE Append(mems, << >>)
        /\ origin' = IF shared THEN origin ELSE Append(origin, << >>)
        /\ stack' = Append(SetTop([top EXCEPT !.pc = "wait", !.pend = top.pre.tool]),
                           NewFrame(sub, mid, SubProps(top), task, nruns + 1,
                                    Len(mems'[mid])))
        /\ nruns' = nruns + 1
  /\ UNCHANGED <<cfg, vocab, call, tx, reg>>

(***************************************************************************)
(* call_agent_with_selected_context up to agent_run, prompt_llm_for_json   *)
(* (src/tools/promptTools.py).  A reply is a sequence of pieces; the fence *)
(* pieces are matched whole and written with quotes for backquotes.        *)
(***************************************************************************)
\* str.find, 0 standing for -1
Find(text, marker) ==
  IF \E i \in 1..Len(text) : text[i] = marker
  THEN CHOOSE i \in 1..Len(text) : text[i] = marker /\ \A j \in 1..(i - 1) : text[j] # marker
  ELSE 0

\* str.strip
RECURSIVE Strip(_)
Strip(text) ==
  IF text = << >> THEN text
  ELSE IF text[1] = " " THEN Strip(Tail(text))
  ELSE IF text[Len(text)] = " " THEN Strip(SubSeq(text, 1, Len(text) - 1))
  ELSE text

JsonFence == "'''json"
Fence == "'''"
SelectionReplies ==
  { Return(Lit(SFirst)),
    Return(<<JsonFence, " ", SSwapped, " ", Fence>>),
    Return(<<"Here:", JsonFence, SUnknown>>),
    Return(<<JsonFence, SNone, Fence, "Thanks">>),
    Return(<<Fence, JsonFence, SNoReason>>),
    Return(Lit(SNoSelected)),
    Return(Lit(TArr)),
    Return(<<" ", SString, " ">>),
    Return(<<"I pick", SFirst>>),
    Raise("ValueError", Lit("refused")),
    LlmDown }

\* what three successive calls of the model function answer
SelectionRuns == [1..3 -> SelectionReplies]

\* response.rfind(Fence): the last fence of either kind, 0 standing for -1
LastFence(text) ==
  IF \E i \in 1..Len(text) : text[i] \in {Fence, JsonFence}
  THEN CHOOSE i \in 1..Len(text) :
         /\ text[i] \in {Fence, JsonFence}
         /\ \A j \in (i + 1)..Len(text) : text[j] \notin {Fence, JsonFence}
  ELSE 0

\* the text json.loads is given
ExtractJsonFrom(text, start, end) ==
  IF start = 0 THEN Strip(text)
  ELSE IF end > start THEN Strip(SubSeq(text, start + 1, end - 1))
  ELSE Strip(SubSeq(text, start + 1, Len(text)))

ExtractJson(text) == ExtractJsonFrom(text, Find(text, JsonFence), LastFence(text))

\* prompt_llm_for_json from attempt k on: JSONDecodeError and ValueError are
\* retried twice, any other exception leaves at once
RECURSIVE PromptLlmForJsonFrom(_, _)
RECURSIVE PromptLlmForJsonLoaded(_, _, _)
PromptLlmForJsonFrom(answers, k) ==
  IF ~answers[k].ok
  THEN IF answers[k].exc \in {"JSONDecodeError", "ValueError"}
       THEN PromptLlmForJsonLoaded(answers, k, answers[k])
       ELSE [out |-> answers[k], asks |-> k]
  ELSE PromptLlmForJsonLoaded(answers, k, JsonLoads(ExtractJson(answers[k].val)))

PromptLlmForJsonLoaded(answers, k, loaded) ==
  IF loaded.ok \/ k = 3 THEN [out |-> loaded, asks |-> k]
  ELSE PromptLlmForJsonFrom(answers, k + 1)

PromptLlmForJson(answers) == PromptLlmForJsonFrom(answers, 1)

\* f"mem_{idx}", idx counted from 0
MemoryId(k) == PyStr("mem_" \o ToString(k - 1))

\* set(x): a TypeError for what cannot be iterated or hashed; the characters
\* of a str, none of which is a memory id
PySet(x) ==
  CASE x.t = "list" ->
         IF \E i \in 1..Len(x.v) : x.v[i].t \in {"list", "dict"}
         THEN Raise("TypeError", Lit("unhashable type"))
         ELSE Return({ x.v[i] : i \in 1..Len(x.v) })
    [] x.t = "dict" -> Return({ PyStr(k) : k \in Keys(x) })
    [] x.t = "str" -> Return({})
    [] OTHER -> Raise("TypeError", Lit("object is not iterable"))

\* selected_ids = set(selection["selected_memories"])
SelectedIdsOf(field) == IF field.ok THEN PySet(field.val) ELSE field
SelectedIds(selection) == SelectedIdsOf(PySubscript(selection, "selected_memories"))

\* a filter that hands over the entries the selection did not name
FilteredOut(items, ids) ==
  SelectSeq([k \in 1..Len(items) |-> [at |-> k, item |-> items[k]]],
            LAMBDA e : MemoryId(e.at) \notin ids)

\* filtered_memory: the entries whose id is selected, in their order
Filtered(items, ids) ==
  SelectSeq([k \in 1..Len(items) |-> [at |-> k, item |-> items[k]]],
            LAMBDA e : MemoryId(e.at) \in ids)

FilteredMemory(items, ids) ==
  [k \in 1..Len(Filtered(items, ids)) |-> Filtered(items, ids)[k].item]

\* the tool up to agent_run: the selection, or the exception that ends it
SelectionOf(sel) ==
  IF ~sel.out.ok THEN sel.out
  ELSE IF ~SelectedIds(sel.out.val).ok THEN SelectedIds(sel.out.val)
  ELSE sel.out

SelectionFailed(f, sel) ==
  [f EXCEPT !.selection = sel.out, !.asks = sel.asks,
            !.result = ContextFailure(SelectionOf(sel)), !.pc = "action"]

\* the selection raises, or names no usable list of ids: the tool raises
SelectionFails ==
  /\ top.pc = "dispatch"
  /\ top.pre.run
  /\ top.pre.tool = SelectiveTool
  /\ DelegationLookup(top, top.pre.args).ok
  /\ mems[top.mem] # << >>
  /\ \E answers \in SelectionRuns :
       /\ ~SelectionOf(PromptLlmForJson(answers)).ok
       /\ stack' = SetTop(SelectionFailed(top, PromptLlmForJson(answers)))
  /\ UNCHANGED <<mems, origin, cfg, vocab, nruns, call, tx, reg>>

SelectedFrame(f, sel) ==
  [f EXCEPT !.selection = sel.out, !.asks = sel.asks, !.pc = "wait",
            !.pend = SelectiveTool]

\* agent_run(user_input=task, memory=filtered_memory)
SelectContext ==
  /\ top.pc = "dispatch"
  /\ top.pre.run
  /\ top.pre.tool = SelectiveTool
  /\ DelegationLookup(top, top.pre.args).ok
  /\ mems[top.mem] # << >>
  /\ \E answers \in SelectionRuns :
       /\ SelectionOf(PromptLlmForJson(answers)).ok
       /\ mems' = Append(mems, FilteredMemory(mems[top.mem],
                      SelectedIds(PromptLlmForJson(answers).out.val).val))
       /\ origin' = Append(origin,
                      [k \in 1..Len(mems'[Len(mems')]) |-> Tag("selected", top)])
       /\ stack' = Append(SetTop(SelectedFrame(top, PromptLlmForJson(answers))),
                          NewFrame(DelegationLookup(top, top.pre.args).val,
                                   Len(mems) + 1, SubProps(top),
                                   Lookup(top.pre.args, "task").v, nruns + 1,
                                   Len(mems'[Len(mems')])))
  /\ nruns' = nruns + 1
  /\ UNCHANGED <<cfg, vocab, call, tx, reg>>

\* current_memory.add_memory of the selection reasoning
SelectionEntry(sub, reasoning) ==
  [role |-> "-", content |-> Lit("Memory selection for ") \o Lit(sub.agent)
                             \o Lit(": ") \o reasoning.v,
   type |-> "system", agent_source |-> "memory_selector"]

\* {**memory_item, "agent_source": agent_name}
SelectedCopy(sub, item) == [item EXCEPT !.agent_source = sub.agent]

\* a merge that copies back only what the sub-agent's run appended
SelectedCopiesOfRunOnly(reasoning, sub, items) ==
  IF ~reasoning.ok THEN << >>
  ELSE <<SelectionEntry(sub, reasoning.val)>>
       \o [k \in 1..(Len(items) - sub.startLen) |->
             SelectedCopy(sub, items[sub.startLen + k])]

\* what the tool appends to the caller's Memory after agent_run
SelectedCopiesWith(reasoning, sub, items) ==
  IF ~reasoning.ok THEN << >>
  ELSE <<SelectionEntry(sub, reasoning.val)>>
       \o [k \in 1..Len(items) |-> SelectedCopy(sub, items[k])]

SelectedCopies(selection, sub, items) ==
  SelectedCopiesWith(PySubscript(selection, "reasoning"), sub, items)

SelectedResultWith(reasoning, sub, items, available) ==
  IF ~reasoning.ok THEN ContextFailure(reasoning)
  ELSE FormatResult(PyDict(<< <<"success", PyBool(TRUE)>>,
                              <<"agent", PyStr(sub.agent)>>,
                              <<"result", IF Len(items) > 0
                                          THEN PyText(items[Len(items)].content)
                                          ELSE PyStr("No output")>>,
                              <<"shared_memories", PyNum(Len(items))>>,
                              <<"selection_reasoning", reasoning.val>>,
                              <<"total_memories_available", PyNum(available)>>,
                              <<"optimization", PyStr("memory_selective")>> >>))

SelectedResult(caller, sub, items, available) ==
  SelectedResultWith(PySubscript(caller.selection.val, "reasoning"), sub, items,
                     available)

\* what the delegation tool does once agent_run has returned or raised
LastContent(items) == PyText(items[Len(items)].content)

\* a call_agent that answers with the first entry of the sub-agent's Memory
CallAgentFirstContent(sub, items) ==
  FormatResult(PyDict(<< <<"success", PyBool(TRUE)>>,
                         <<"agent", PyStr(sub.agent)>>,
                         <<"result", IF Len(items) > 0 THEN PyText(items[1].content)
                                     ELSE PyStr("")>>,
                         <<"memory_items", PyNum(Len(items))>> >>))

CallAgentResult(sub, items) ==
  IF sub.outcome = "raised"
  THEN FormatResult(PyDict(<< <<"success", PyBool(FALSE)>>,
                              <<"error", PyStr("hook raised")>> >>))
  ELSE IF Len(items) > 0
  THEN FormatResult(PyDict(<< <<"success", PyBool(TRUE)>>,
                              <<"agent", PyStr(sub.agent)>>,
                              <<"result", LastContent(items)>>,
                              <<"memory_items", PyNum(Len(items))>> >>))
  ELSE FormatResult(PyDict(<< <<"success", PyBool(FALSE)>>,
          <<"result", PyStr("Agent completed but produced no output")>> >>))

\* a copy that keeps the entry as the sub-agent wrote it
ReflectionEntryUntagged(sub, item) ==
  [role |-> item.role, content |-> item.content, type |-> item.type,
   agent_source |-> item.agent_source]

ReflectionEntry(sub, item) ==
  [role |-> "-", content |-> item.content, type |-> sub.agent \o "_thought",
   agent_source |-> sub.agent]

ReflectionResult(sub, items) ==
  FormatResult(PyDict(<< <<"success", PyBool(TRUE)>>,
                         <<"agent", PyStr(sub.agent)>>,
                         <<"result", IF Len(items) > 0 THEN LastContent(items)
                                     ELSE PyStr("No output")>>,
                         <<"memories_added", PyNum(Len(items))>>,
                         <<"reasoning_shared", PyBool(TRUE)>> >>))

HandOffResult(sub, items) ==
  FormatResult(PyDict(<< <<"success", PyBool(TRUE)>>,
                         <<"agent", PyStr(sub.agent)>>,
                         <<"result", IF Len(items) > 0 THEN LastContent(items)
                                     ELSE PyStr("No output")>>,
                         <<"memory_id", PyNum(sub.mem)>>,
                         <<"shared_memory", PyBool(TRUE)>>,
                         <<"memory_items", PyNum(Len(items))>> >>))

SubRunRaised == Raise("Exception", Lit("hook raised"))

\* the sub-agent's run is over: the delegation tool finishes and dispatch
\* returns in the caller
ToolReturn ==
  /\ depth > 1
  /\ top.pc = "done"
  /\ LET sub == top
         caller == stack[depth - 1]
         items == mems[sub.mem]
         fresh == caller.pend # "hand_off_to_agent"
         copies == IF caller.pend = "call_agent_with_reflection"
                      /\ sub.outcome = "returned"
                   THEN [i \in 1..Len(items) |-> ReflectionEntry(sub, items[i])]
                   ELSE IF caller.pend = SelectiveTool /\ sub.outcome = "returned"
                   THEN SelectedCopies(caller.selection.val, sub, items)
                   ELSE << >>
         result ==
           CASE caller.pend = "call_agent" -> CallAgentResult(sub, items)
             [] sub.outcome = "raised" -> ContextFailure(SubRunRaised)
             [] caller.pend = "call_agent_with_reflection" -> ReflectionResult(sub, items)
             [] caller.pend = SelectiveTool ->
                  SelectedResult(caller, sub, items, Len(mems[caller.mem]))
             [] OTHER -> HandOffResult(sub, items)
         kept == IF fresh THEN Len(mems) - 1 ELSE Len(mems)
     IN /\ mems' = [m \in 1..kept |->
                      IF m = caller.mem THEN mems[m] \o copies ELSE mems[m]]
        /\ origin' = [m \in 1..kept |->
                        IF m = caller.mem
                        THEN origin[m] \o [i \in 1..Len(copies) |-> Tag("copy", caller)]
                        ELSE origin[m]]
        /\ stack' = [i \in 1..(depth - 1) |->
                       IF i = depth - 1
                       THEN [caller EXCEPT !.result = result, !.pc = "action", !.pend = "-"]
                       ELSE stack[i]]
  /\ UNCHANGED <<cfg, vocab, nruns, call, tx, reg>>

\* update_memory without the entry of the response
UpdateMemoryNoResponse(items, response, dumped) ==
  IF dumped.ok THEN Append(items, Entry("user", dumped.val)) ELSE items

\* update_memory with the two appends in the other order
UpdateMemoryResultFirst(items, response, dumped) ==
  IF dumped.ok
  THEN Append(Append(items, Entry("user", dumped.val)), Entry("assistant", response))
  ELSE items

\* Agent.update_memory: json.dumps(result) is evaluated after the assistant
\* entry is appended, so a TypeError leaves that entry alone in the Memory
UpdateMemory(items, response, dumped) ==
  IF dumped.ok
  THEN Append(Append(items, Entry("assistant", response)), Entry("user", dumped.val))
  ELSE Append(items, Entry("assistant", response))

UpdateOrigin(tags, f, dumped) ==
  IF dumped.ok
  THEN Append(Append(tags, Tag("assistant", f)), Tag("result", f))
  ELSE Append(tags, Tag("assistant", f))

\* process_action hooks, then update_memory
Record ==
  /\ top.pc = "action"
  /\ mems' = [mems EXCEPT ![top.mem] = UpdateMemory(@, top.response, JsonDumps(top.result))]
  /\ origin' = [origin EXCEPT ![top.mem] = UpdateOrigin(@, top, JsonDumps(top.result))]
  /\ stack' = SetTop(IF JsonDumps(top.result).ok
                     THEN [top EXCEPT !.pc = "check"]
                     ELSE [top EXCEPT !.exit = "exception", !.pc = "finally"])
  /\ UNCHANGED <<cfg, vocab, nruns, call, tx, reg>>

\* hasattr(environment, 'review_and_execute_staged'): no Environment class
\* of the repository defines it, an Environment of the integrator may
HasReviewAndExecuteStaged(conf) == conf.staged # "none"

\* hasattr(environment, 'current_task_id') and environment.current_task_id
CurrentTaskId(conf) == conf.staged = "task"

StagedHookDue(conf) == HasReviewAndExecuteStaged(conf) /\ CurrentTaskId(conf)

\* a termination check that asks for a terminal action that was executed
StopsLoopIfExecuted(f) ==
  /\ ShouldTerminate(Conf(f.agent).actions, f.response)
  /\ f.result.t = "dict"
  /\ HasKey(f.result, "tool_executed")
  /\ Lookup(f.result, "tool_executed") = PyBool(TRUE)

\* if self.should_terminate(action_context, response): break
StopsLoop(f) == ShouldTerminate(Conf(f.agent).actions, f.response)

\* the termination check: break, or on to the staged hook or the next
\* iteration
CheckTerminate ==
  /\ top.pc = "check"
  /\ stack' = SetTop(IF StopsLoop(top)
                     THEN [top EXCEPT !.exit = "break", !.pc = "finally"]
                     ELSE IF StagedHookDue(Conf(top.agent))
                     THEN [top EXCEPT !.pc = "staged"]
                     ELSE [top EXCEPT !.pc = "head"])
  /\ UNCHANGED <<mems, origin, cfg, vocab, nruns, call, tx, reg>>

\* what review_and_execute_staged of the integrator's Environment does
StagedOutcomes ==
  { Return(PyDict(<< <<"success", PyBool(TRUE)>> >>)),
    Return(PyDict(<< <<"success", PyBool(FALSE)>>, <<"message", PyStr("rejected")>> >>)),
    Return(PyDict(<< >>)),
    Return(PyNone),
    Raise("RuntimeError", Lit("commit failed")) }

\* a loop that a failed staged commit ends
StagedFailureAborts(f, o) ==
  IF o.ok /\ o.val.t = "dict" /\ HasKey(o.val, "success")
     /\ Lookup(o.val, "success") = PyBool(TRUE)
  THEN [f EXCEPT !.staged = Append(@, f.iteration), !.review = o, !.pc = "head"]
  ELSE [f EXCEPT !.staged = Append(@, f.iteration), !.review = o,
                 !.hook = "staged", !.exit = "exception", !.pc = "finally"]

\* review_result = review_and_execute_staged(); review_result.get('success')
\* is printed either way; a raise, or a result without get, is caught by
\* except Exception of run
StagedReviewed(f, o) ==
  IF o.ok /\ o.val.t = "dict"
  THEN [f EXCEPT !.staged = Append(@, f.iteration), !.review = o, !.pc = "head"]
  ELSE [f EXCEPT !.staged = Append(@, f.iteration), !.review = o,
                 !.hook = "staged", !.exit = "exception", !.pc = "finally"]

ReviewStaged ==
  /\ top.pc = "staged"
  /\ \E o \in StagedOutcomes : stack' = SetTop(StagedReviewed(top, o))
  /\ UNCHANGED <<mems, origin, cfg, vocab, nruns, call, tx, reg>>

\* finally: every terminate hook returns, and run returns the Memory
FinallyReturns ==
  /\ top.pc = "finally"
  /\ stack' = SetTop([top EXCEPT !.termCalls = [i \in DOMAIN @ |-> @[i] + 1],
                        !.outcome = "returned", !.pc = "done"])
  /\ UNCHANGED <<mems, origin, cfg, vocab, nruns, call, tx, reg>>

\* finally: the terminate hook of capability j raises; the for loop of the
\* finally block ends there and the exception leaves run
FinallyRaises ==
  /\ top.pc = "finally"
  /\ \E j \in 1..Conf(top.agent).ncaps :
       stack' = SetTop([top EXCEPT
                          !.termCalls = [i \in DOMAIN @ |-> IF i <= j THEN @[i] + 1 ELSE @[i]],
                          !.outcome = "raised", !.raisedBy = "terminate",
                          !.hook = "terminate", !.pc = "done"])
  /\ UNCHANGED <<mems, origin, cfg, vocab, nruns, call, tx, reg>>

Next ==
  \/ RunStart
  \/ CapabilityInitRaises
  \/ LoopHead
  \/ Prompt
  \/ HookRaises
  \/ Interrupt
  \/ Resolve
  \/ DispatchFails
  \/ DelegationFails
  \/ DispatchTerminate
  \/ DispatchWork
  \/ DispatchListFiles
  \/ Delegate
  \/ SelectionFails
  \/ SelectContext
  \/ ToolReturn
  \/ Record
  \/ CheckTerminate
  \/ ReviewStaged
  \/ FinallyReturns
  \/ FinallyRaises

Spec == Init /\ [][Next]_vars

(***************************************************************************)
(* The Environment entry points called directly (src/game/environment.py): *)
(* call is one call with its receiver, action, arguments and Action        *)
(* Context properties, args being the caller's mapping as it is now and     *)
(* passed as it was given.  History: kwargs (what the tool function was called *)
(* with), raised (the exception the call met), runs (executions of the     *)
(* tool body).                                                             *)
(***************************************************************************)
ImmediateOperations ==
  {"parse_gherkin", "extract_scenarios", "validate_gherkin_syntax", "read_existing_code"}
AiReviewOperations ==
  {"generate_step_definitions", "generate_test_implementation",
   "generate_production_code", "refactor_existing_code"}
\* self.max_review_iterations = 3
MaxReviewIterations == 3

LiveContext == PyObject("ActionContext")
Nothing == Return(PyNone)

\* args_copy[param_name] = value
InjectedValue(name, properties) ==
  IF name = "action_context" THEN LiveContext
  ELSE Lookup(properties, CHOOSE k \in Keys(properties) : name = "_" \o k)

\* an injection that keeps an argument the caller gave under the same name
ArgsCopyKeepsGiven(tool, args, properties) ==
  [n \in Keys(args) \cup Injected(tool, Keys(properties)) |->
     IF n \in Keys(args) THEN Lookup(args, n) ELSE InjectedValue(n, properties)]

\* args_copy once both injections are done
ArgsCopy(tool, args, properties) ==
  [n \in Keys(args) \cup Injected(tool, Keys(properties)) |->
     IF n \in Injected(tool, Keys(properties))
     THEN InjectedValue(n, properties)
     ELSE Lookup(args, n)]

\* the keyword arguments action.execute is called with, or the exception
\* raised on the way to the call
Kwargs(env, tool, args, properties) ==
  IF env = "ActionContextEnvironment"
  THEN IF args.t # "dict"
       THEN Raise("AttributeError", Lit("object has no attribute 'copy'"))
       ELSE Return(ArgsCopy(tool, args, properties))
  ELSE IF args.t # "dict"
       THEN Raise("TypeError", Lit("argument after ** must be a mapping"))
       ELSE Return([n \in Keys(args) |-> Lookup(args, n)])

\* an except branch that wraps the error text with format_result
BaseFailureAsSuccess(e) == FormatResult(PyText(e.msg))

\* the except branch of Environment.execute_action
BaseFailure(e) ==
  PyDict(<< <<"tool_executed", PyBool(FALSE)>>, <<"error", PyText(e.msg)>>,
            <<"traceback", PyStr("Traceback")>> >>)

EnvFailure(env, e) ==
  IF env = "ActionContextEnvironment" THEN ContextFailure(e) ELSE BaseFailure(e)

EnvTools == {"work", "list_files", "translate", "parse_gherkin", "generate_step_definitions"}
ModelArgs ==
  { PyDict(<< >>),
    PyDict(<< <<"text", PyStr("hi")>> >>),
    PyDict(<< <<"text", PyStr("hi")>>, <<"_target_language", PyStr("fr")>> >>),
    PyDict(<< <<"action_context", PyStr("fake")>> >>),
    PyDict(<< <<"bogus", PyNum(1)>> >>),
    PyNum(5) }
PropertySets ==
  { PyDict(<< >>), PyDict(<< <<"target_language", PyStr("python")>> >>) }

NewCall(entry, env, tool, args, properties, cap, review) ==
  [ entry |-> entry, env |-> env, tool |-> tool, args |-> args,
    properties |-> properties, cap |-> cap, review |-> review, outer |-> entry,
    passed |-> args,
    pc |-> "call", kwargs |-> Nothing, raised |-> Nothing, runs |-> 0,
    result |-> Nothing ]

ExecuteActionBinds(c, kwargs, bound) ==
  IF ~bound.ok
  THEN [c EXCEPT !.kwargs = kwargs, !.raised = bound,
                 !.result = Return(EnvFailure(c.env, bound)), !.pc = "done"]
  ELSE [c EXCEPT !.kwargs = kwargs, !.pc = "body"]

ExecuteActionBound(c, kwargs) ==
  IF ~kwargs.ok
  THEN [c EXCEPT !.raised = kwargs, !.result = Return(EnvFailure(c.env, kwargs)),
                 !.pc = "done"]
  ELSE ExecuteActionBinds(c, kwargs, BindKeywords(c.tool, DOMAIN kwargs.val))

\* injections written to the mapping the caller passed
CallerArgsInjected(env, tool, args, properties) ==
  IF env = "ActionContextEnvironment" /\ args.t = "dict"
  THEN PyDict([i \in 1..Len(args.v) |->
                 IF args.v[i][1] \in Injected(tool, Keys(properties))
                 THEN <<args.v[i][1], InjectedValue(args.v[i][1], properties)>>
                 ELSE args.v[i]])
  ELSE args

\* the mapping the caller passed, after the call: args_copy = args.copy()
\* and action.execute(**args) leave it as it was
CallerArgs(env, tool, args, properties) == args

\* execute_action up to the call of the tool function
ExecuteAction ==
  /\ call.pc = "call"
  /\ call.entry = "execute_action"
  /\ call' = [ExecuteActionBound(call, Kwargs(call.env, call.tool, call.passed,
                                              call.properties))
               EXCEPT !.args = CallerArgs(call.env, call.tool, call.passed,
                                          call.properties)]
  /\ UNCHANGED <<stack, mems, origin, cfg, vocab, nruns, tx, reg>>

\* the tool body returns or raises; format_result or the except branch
ToolBody ==
  /\ call.pc = "body"
  /\ \E o \in WorkOutcomes :
       call' = [call EXCEPT !.runs = @ + 1,
                  !.raised = IF o.ok THEN Nothing ELSE o,
                  !.result = Return(IF o.ok THEN FormatResult(o.val)
                                    ELSE EnvFailure(call.env, o)),
                  !.pc = "done"]
  /\ UNCHANGED <<stack, mems, origin, cfg, vocab, nruns, tx, reg>>

\* the positional parameters _execute_with_review_loop declares after self
\* (agent, action_context, action, args), and how many execute_with_ai_review
\* and the loop body pass on
ReviewLoopParams == 4
ReviewLoopGiven == 3
ReviewAttemptGiven == 4

MissingArgument ==
  Raise("TypeError", Lit("missing 1 required positional argument: 'args'"))

NeedsReview(tool) == tool \notin ImmediateOperations /\ tool \in AiReviewOperations

\* execute_with_ai_review, _execute_immediate: the action runs once through
\* context_env.execute_action(action_context, action, args)
ExecuteImmediate ==
  /\ call.pc = "call"
  /\ call.entry = "execute_with_ai_review"
  /\ ~NeedsReview(call.tool)
  /\ call' = [call EXCEPT !.entry = "execute_action", !.env = "ActionContextEnvironment"]
  /\ UNCHANGED <<stack, mems, origin, cfg, vocab, nruns, tx, reg>>

\* execute_with_ai_review for an action under review: the call
\* self._execute_with_review_loop(action_context, action, args) lacks the
\* agent argument and raises TypeError
ExecuteWithAiReview ==
  /\ call.pc = "call"
  /\ call.entry = "execute_with_ai_review"
  /\ NeedsReview(call.tool)
  /\ ReviewLoopGiven # ReviewLoopParams
  /\ call' = [call EXCEPT !.result = MissingArgument, !.raised = MissingArgument,
                         !.pc = "done"]
  /\ UNCHANGED <<stack, mems, origin, cfg, vocab, nruns, tx, reg>>

\* _execute_with_review_loop called with all its arguments: with a cap of 0
\* the return statement reads the unbound generated_content; otherwise the
\* first attempt calls context_env.execute_action(agent, action_context,
\* action, args), one argument too many, and raises TypeError
ExecuteWithReviewLoop ==
  /\ call.pc = "call"
  /\ call.entry = "_execute_with_review_loop"
  /\ ReviewAttemptGiven # ExecuteActionParams("ActionContextEnvironment")
  /\ call' = IF call.cap = 0
             THEN [call EXCEPT
                     !.result = Raise("UnboundLocalError", Lit("generated_content")),
                     !.raised = Raise("UnboundLocalError", Lit("generated_content")),
                     !.pc = "done"]
             ELSE [call EXCEPT !.result = ArityError, !.raised = ArityError, !.pc = "done"]
  /\ UNCHANGED <<stack, mems, origin, cfg, vocab, nruns, tx, reg>>

(***************************************************************************)
(* AIReviewBDDEnvironment._ai_review_content.  The reviewer's text is a    *)
(* sequence of pieces; a piece is matched whole.                           *)
(***************************************************************************)
MaxPieces == 3

ReviewPieces ==
  {"APPROVE", "approve", "Disapproved", "REJECT", "FEEDBACK:", "feedback:", " ", "fix it"}

\* str.upper
Upper(piece) ==
  CASE piece = "approve" -> "APPROVE"
    [] piece = "Disapproved" -> "DISAPPROVED"
    [] piece = "feedback:" -> "FEEDBACK:"
    [] piece = "fix it" -> "FIX IT"
    [] OTHER -> piece

\* 'APPROVE' in piece
HoldsApprove(piece) == piece \in {"APPROVE", "DISAPPROVED"}

\* a verdict that looks for APPROVE in the text as written
ApprovedAsWritten(text) == \E i \in 1..Len(text) : HoldsApprove(text[i])

\* approved = 'APPROVE' in review_response.upper()
Approved(text) == \E i \in 1..Len(text) : HoldsApprove(Upper(text[i]))

FeedbackFrom(text, start) ==
  IF start # 0 THEN Strip(SubSeq(text, start + 1, Len(text))) ELSE text

Feedback(text) == FeedbackFrom(text, Find(text, "FEEDBACK:"))

RECURSIVE Texts(_)
Texts(n) ==
  IF n = 0 THEN { << >> }
  ELSE Texts(n - 1) \cup { Append(t, p) : t \in { u \in Texts(n - 1) : Len(u) = n - 1 },
                                           p \in ReviewPieces }

\* what the reviewer model returns, or its call raising
ReviewerAnswers == { Return(t) : t \in Texts(MaxPieces) } \cup { LlmDown }

\* review_response = llm(prompt) and the verdict record
AiReviewContent ==
  /\ call.pc = "call"
  /\ call.entry = "_ai_review_content"
  /\ call' = IF ~call.review.ok
             THEN [call EXCEPT !.result = call.review, !.raised = call.review,
                               !.pc = "done"]
             ELSE [call EXCEPT
                     !.result = Return(PyDict(<<
                        <<"approved", PyBool(Approved(call.review.val))>>,
                        <<"feedback", PyText(Feedback(call.review.val))>>,
                        <<"full_response", PyText(call.review.val)>> >>)),
                     !.pc = "done"]
  /\ UNCHANGED <<stack, mems, origin, cfg, vocab, nruns, tx, reg>>

\* one direct call: execute_action of each Environment class, the two
\* entry points of the review loop, or _ai_review_content
EnvInit ==
  /\ stack = << >>
  /\ mems = << >>
  /\ origin = << >>
  /\ cfg = [pc |-> "none"]
  /\ vocab = {}
  /\ nruns = 0
  /\ tx = NoTransaction
  /\ reg = NoRegistry
  /\ \/ \E env \in EnvTypes, tool \in EnvTools, args \in ModelArgs,
          properties \in PropertySets :
          call = NewCall("execute_action", env, tool, args, properties,
                         MaxReviewIterations, Nothing)
     \/ \E tool \in EnvTools, args \in ModelArgs, properties \in PropertySets :
          call = NewCall("execute_with_ai_review", "AIReviewBDDEnvironment", tool, args,
                         properties, MaxReviewIterations, Nothing)
     \/ \E tool \in EnvTools, args \in ModelArgs, cap \in 0..MaxReviewIterations :
          call = NewCall("_execute_with_review_loop", "AIReviewBDDEnvironment", tool,
                         args, PyDict(<< >>), cap, Nothing)
     \/ \E review \in ReviewerAnswers :
          call = NewCall("_ai_review_content", "AIReviewBDDEnvironment",
                         "generate_step_definitions", PyDict(<< >>), PyDict(<< >>),
                         MaxReviewIterations, review)

EnvNext ==
  \/ ExecuteAction
  \/ ToolBody
  \/ ExecuteImmediate
  \/ ExecuteWithAiReview
  \/ ExecuteWithReviewLoop
  \/ AiReviewContent

EnvSpec == EnvInit /\ [][EnvNext]_vars

\* ---- ActionTransaction, called directly ----

MaxStaged == 3
MaxExecuted == 3

\* ReversibleAction objects, and the keyword arguments they are staged with
ReversibleActions == {"A", "B", "C"}
StagedArgs == { PyDict(<< >>), PyDict(<< <<"path", PyText(Lit("a.txt"))>> >>) }

\* an attribute the object does not have
Unset == [t |-> "unset", v |-> 0]

\* ActionTransaction.__init__, around ReversibleAction objects whose
\* execute_func raises (fails) and whose reverse_func raises (stuck);
\* record is each action's execution_record, calls the calls of
\* execute_func and reverse_func made by the last operation
NewTransaction(fails, stuck) ==
  [pc |-> "open", op |-> "__init__", out |-> Nothing,
   actions |-> << >>, executed |-> << >>,
   commited |-> PyBool(FALSE), committed |-> Unset,
   record |-> [a \in ReversibleActions |-> PyNone],
   fails |-> fails, stuck |-> stuck, calls |-> << >>]

ExecuteFuncError == Raise("RuntimeError", Lit("execute_func failed"))
ReverseFuncError == Raise("RuntimeError", Lit("reverse_func failed"))
NothingToReverse == Raise("ValueError", Lit("No action to reverse"))
AlreadyCommited == Raise("ValueError", Lit("Transaction already commited"))

\* ActionTransaction.add
TransactionAdd(t, action, args) ==
  IF t.commited = PyBool(TRUE)
  THEN [t EXCEPT !.op = "add", !.calls = << >>, !.out = AlreadyCommited]
  ELSE [t EXCEPT !.op = "add", !.calls = << >>, !.out = Nothing,
                 !.actions = Append(@, <<action, args>>)]

\* ActionTransaction.commit
TransactionCommit(t) ==
  [t EXCEPT !.op = "commit", !.calls = << >>, !.out = Nothing,
            !.committed = PyBool(TRUE)]

\* ReversibleAction.run
ReversibleRun(t, action, args) ==
  IF action \in t.fails
  THEN [t EXCEPT !.calls = Append(@, <<"execute_func", action>>),
                 !.out = ExecuteFuncError]
  ELSE [t EXCEPT !.calls = Append(@, <<"execute_func", action>>),
                 !.record[action] = args, !.out = Nothing]

\* ReversibleAction.undo
ReversibleUndo(t, action) ==
  IF t.record[action] = PyNone
  THEN [t EXCEPT !.out = NothingToReverse]
  ELSE [t EXCEPT !.calls = Append(@, <<"reverse_func", action>>),
                 !.out = IF action \in t.stuck THEN ReverseFuncError ELSE Nothing]

\* a rollback that undoes the oldest entry first
RECURSIVE RollbackOldestFirst(_, _)
RollbackOldestFirst(t, k) ==
  IF k = 0 THEN [t EXCEPT !.executed = << >>, !.out = Nothing]
  ELSE IF t.executed[Len(t.executed) + 1 - k] \in t.stuck
       THEN [t EXCEPT !.calls = Append(@, <<"reverse_func",
                                          t.executed[Len(t.executed) + 1 - k]>>),
                      !.out = ReverseFuncError]
       ELSE RollbackOldestFirst(
              [t EXCEPT !.calls = Append(@, <<"reverse_func",
                                           t.executed[Len(t.executed) + 1 - k]>>)],
              k - 1)

\* ActionTransaction.rollback: for action in reversed(self.executed), from
\* position k down, then self.executed = []
RECURSIVE RollbackFrom(_, _)
RECURSIVE RollbackAfterUndo(_, _)
RollbackFrom(t, k) ==
  IF k = 0 THEN [t EXCEPT !.executed = << >>, !.out = Nothing]
  ELSE RollbackAfterUndo(ReversibleUndo(t, t.executed[k]), k)

\* a rollback that goes on to the older entries after an inverse raised
RollbackBestEffort(t, k) == RollbackFrom(t, k - 1)

RollbackAfterUndo(t, k) == IF t.out.ok THEN RollbackFrom(t, k - 1) ELSE t

TransactionRollback(t) == RollbackFrom(t, Len(t.executed))

\* except Exception as e: await self.rollback(); raise e
RaiseAfterRollback(t, e) == IF t.out.ok THEN [t EXCEPT !.out = e] ELSE t

\* ActionTransaction.execute: for action, args in self.actions, from
\* position k on
RECURSIVE ExecuteFrom(_, _)
RECURSIVE ExecuteAfterRun(_, _)
ExecuteFrom(t, k) ==
  IF k > Len(t.actions) THEN [t EXCEPT !.out = Nothing]
  ELSE ExecuteAfterRun(ReversibleRun(t, t.actions[k][1], t.actions[k][2]), k)

ExecuteAfterRun(t, k) ==
  IF t.out.ok
  THEN ExecuteFrom([t EXCEPT !.executed = Append(@, t.actions[k][1])], k + 1)
  ELSE RaiseAfterRollback(TransactionRollback(t), t.out)

TransactionExecute(t) == ExecuteFrom(t, 1)

Add ==
  /\ tx.pc = "open"
  /\ Len(tx.actions) < MaxStaged
  /\ \E action \in ReversibleActions, args \in StagedArgs :
       tx' = TransactionAdd(tx, action, args)
  /\ UNCHANGED <<stack, mems, origin, cfg, vocab, nruns, call, reg>>

Commit ==
  /\ tx.pc = "open"
  /\ tx' = TransactionCommit(tx)
  /\ UNCHANGED <<stack, mems, origin, cfg, vocab, nruns, call, reg>>

Execute ==
  /\ tx.pc = "open"
  /\ Len(tx.executed) + Len(tx.actions) <= MaxExecuted
  /\ tx' = TransactionExecute([tx EXCEPT !.op = "execute", !.calls = << >>])
  /\ UNCHANGED <<stack, mems, origin, cfg, vocab, nruns, call, reg>>

Rollback ==
  /\ tx.pc = "open"
  /\ tx' = TransactionRollback([tx EXCEPT !.op = "rollback", !.calls = << >>])
  /\ UNCHANGED <<stack, mems, origin, cfg, vocab, nruns, call, reg>>

\* one transaction, its methods called in any order
TxInit ==
  /\ stack = << >>
  /\ mems = << >>
  /\ origin = << >>
  /\ cfg = [pc |-> "none"]
  /\ vocab = {}
  /\ nruns = 0
  /\ call = NoCall
  /\ reg = NoRegistry
  /\ \E fails \in SUBSET ReversibleActions, stuck \in SUBSET ReversibleActions :
       tx = NewTransaction(fails, stuck)

TxNext ==
  \/ Add
  \/ Commit
  \/ Execute
  \/ Rollback

TxSpec == TxInit /\ [][TxNext]_vars

\* ---- ActionRegistry and DecoratorActionRegistry, called directly ----

\* game.tools.tools after the tool modules are imported: name, tags, terminal
CatalogTools ==
  << [name |-> "list_files", tags |-> {"file_operations", "general"}, terminal |-> FALSE],
     [name |-> "terminate", tags |-> {"general"}, terminal |-> TRUE],
     [name |-> "call_agent", tags |-> {"agent", "coordination"}, terminal |-> FALSE],
     [name |-> "call_agent_with_reflection",
      tags |-> {"agent", "coordination", "reflection"}, terminal |-> FALSE] >>

\* the catalog with and without tools.otherTools imported
Catalogs ==
  { CatalogTools, SelectSeq(CatalogTools, LAMBDA d : d.name # "terminate") }

\* tags and tool_names arguments; {} stands for None and for [], both falsy
TagRequests ==
  { {}, {"general"}, {"agent"}, {"reflection", "file_operations"}, {"expert"} }
NameRequests == { {}, {"terminate"}, {"list_files", "call_agent"} }

\* self.actions keeps its keys in the order of their first registration
RegisterOrder(order, action) ==
  IF \E i \in 1..Len(order) : order[i] = action.name THEN order
  ELSE Append(order, action.name)

\* ActionRegistry.__init__; given and asked are the arguments of the last
\* register and get_action
NewRegistry(kind) ==
  [pc |-> "open", kind |-> kind, op |-> "__init__", out |-> Nothing,
   actions |-> EmptyRegistry, order |-> << >>, terminate_tool |-> PyNone,
   given |-> Action("", FALSE), asked |-> PyNone]

\* self.register(action)
Registered(r, action) ==
  [r EXCEPT !.actions = Register(@, action), !.order = RegisterOrder(@, action)]

\* if tool_name == "terminate": self.terminate_tool = tool_desc
TerminateSeen(r, d) ==
  [r EXCEPT !.terminate_tool = IF d.name = "terminate" THEN PyObject(d) ELSE @]

\* DecoratorActionRegistry.__init__: the loop body for one catalog entry
DecoratorVisit(r, d, tags, tool_names) ==
  IF tool_names # {} /\ d.name \notin tool_names THEN TerminateSeen(r, d)
  ELSE IF tags # {} /\ tags \cap d.tags = {} THEN TerminateSeen(r, d)
  ELSE Registered(TerminateSeen(r, d), Action(d.name, d.terminal))

\* for tool_name, tool_desc in tools.items()
RECURSIVE DecoratorFrom(_, _, _, _, _)
DecoratorFrom(r, catalog, k, tags, tool_names) ==
  IF k > Len(catalog) THEN r
  ELSE DecoratorFrom(DecoratorVisit(r, catalog[k], tags, tool_names),
                     catalog, k + 1, tags, tool_names)

NewDecoratorRegistry(catalog, tags, tool_names) ==
  DecoratorFrom(NewRegistry("DecoratorActionRegistry"), catalog, 1, tags, tool_names)

TerminateNotFound ==
  Raise("Exception", Lit("Terminate tool not found in global registry"))

\* DecoratorActionRegistry.register_terminate_tool
RegistryRegisterTerminate(r) ==
  IF r.terminate_tool = PyNone
  THEN [r EXCEPT !.op = "register_terminate_tool", !.out = TerminateNotFound]
  ELSE [Registered(r, Action("terminate", r.terminate_tool.v.terminal))
          EXCEPT !.op = "register_terminate_tool", !.out = Nothing]

\* ActionRegistry.get_actions
RegistryGetActions(r) == [i \in 1..Len(r.order) |-> r.actions[r.order[i]]]

\* the Action objects callers register, and the names they look up
ModelActions == { Action(n, t) : n \in {"work", "terminate"}, t \in BOOLEAN }
LookupNames ==
  { PyStr("work"), PyStr("terminate"), PyStr("list_files"), PyStr("ghost"), PyNone }

RegisterAction ==
  /\ reg.pc = "open"
  /\ \E action \in ModelActions :
       reg' = [Registered(reg, action) EXCEPT !.op = "register", !.out = Nothing,
                                             !.given = action]
  /\ UNCHANGED <<stack, mems, origin, cfg, vocab, nruns, call, tx>>

GetRegisteredAction ==
  /\ reg.pc = "open"
  /\ \E name \in LookupNames :
       reg' = [reg EXCEPT !.op = "get_action", !.asked = name,
                          !.out = RegistryGetAction(reg.actions, name)]
  /\ UNCHANGED <<stack, mems, origin, cfg, vocab, nruns, call, tx>>

GetActions ==
  /\ reg.pc = "open"
  /\ reg' = [reg EXCEPT !.op = "get_actions", !.out = Return(RegistryGetActions(reg))]
  /\ UNCHANGED <<stack, mems, origin, cfg, vocab, nruns, call, tx>>

RegisterTerminate ==
  /\ reg.pc = "open"
  /\ reg.kind = "DecoratorActionRegistry"
  /\ reg' = RegistryRegisterTerminate(reg)
  /\ UNCHANGED <<stack, mems, origin, cfg, vocab, nruns, call, tx>>

\* one registry of either class, its methods called in any order
RegInit ==
  /\ stack = << >>
  /\ mems = << >>
  /\ origin = << >>
  /\ cfg = [pc |-> "none"]
  /\ vocab = {}
  /\ nruns = 0
  /\ call = NoCall
  /\ tx = NoTransaction
  /\ \/ reg = NewRegistry("ActionRegistry")
     \/ \E catalog \in Catalogs, tags \in TagRequests, tool_names \in NameRequests :
          reg = NewDecoratorRegistry(catalog, tags, tool_names)

RegNext ==
  \/ RegisterAction
  \/ GetRegisteredAction
  \/ GetActions
  \/ RegisterTerminate

RegSpec == RegInit /\ [][RegNext]_vars

(***************************************************************************)
(* Properties of Agent.run.  A frame of the stack is one call of run; its  *)
(* history said holds the responses of its model calls in order.           *)
(***************************************************************************)
Selects(got, terminal) == got.ok /\ got.val.action.terminal = terminal
SelectsTerminate(got) ==
  got.ok /\ got.val.action.name = "terminate" /\ got.val.action.terminal
Resolved(f, k) == GetAction(Conf(f.agent).actions, f.said[k])

\* C1: once a response resolves to a registered action whose terminal flag
\* is true, that response is the last model call of the run, the loop is in
\* its last iteration, and no Memory entry of a later iteration exists.
C1_TerminalActionStopsLoop ==
  \A i \in 1..Len(stack) : \A k \in 1..Len(stack[i].said) :
    Selects(Resolved(stack[i], k), TRUE)
      => /\ Len(stack[i].said) = k
         /\ stack[i].iteration = k
         /\ \A p \in 1..Len(origin[stack[i].mem]) :
              origin[stack[i].mem][p].rid = stack[i].rid
                => origin[stack[i].mem][p].iter <= k

\* a run that left the loop by break before the cap, result recorded
C1_Witness ==
  \E i \in 1..Len(stack) :
    /\ stack[i].pc = "done"
    /\ stack[i].exit = "break"
    /\ stack[i].iteration = 1
    /\ Conf(stack[i].agent).max_iterations = MaxIterations
    /\ origin[stack[i].mem][Len(origin[stack[i].mem])] = Tag("result", stack[i])

\* C2: a run in which every response resolves to a registered non-terminal
\* action, no hook raises and no interrupt arrives makes exactly
\* max_iterations model calls, whatever the tools return or raise.
C2_IterationCap ==
  \A i \in 1..Len(stack) :
    ( /\ stack[i].pc = "done"
      /\ stack[i].hook = "-"
      /\ stack[i].exit # "interrupt"
      /\ \A k \in 1..Len(stack[i].said) : Selects(Resolved(stack[i], k), FALSE) )
    => Len(stack[i].said) = Conf(stack[i].agent).max_iterations

\* C3: a run started on an empty Memory whose first response selects the
\* registered terminal terminate action, with no hook raising, returns
\* after one iteration by break with exactly three entries: the task
\* (user), the raw response (assistant), json.dumps of the result (user).
C3_TerminateOnFirstResponse ==
  \A i \in 1..Len(stack) :
    ( /\ stack[i].pc = "done"
      /\ stack[i].startLen = 0
      /\ stack[i].hook = "-"
      /\ Len(stack[i].said) >= 1
      /\ SelectsTerminate(Resolved(stack[i], 1)) )
    => /\ stack[i].outcome = "returned"
       /\ stack[i].exit = "break"
       /\ stack[i].iteration = 1
       /\ Len(stack[i].said) = 1
       /\ Len(mems[stack[i].mem]) = 3
       /\ mems[stack[i].mem][1].role = "user"
       /\ mems[stack[i].mem][1].content = stack[i].task
       /\ mems[stack[i].mem][2].role = "assistant"
       /\ mems[stack[i].mem][2].content = stack[i].said[1]
       /\ mems[stack[i].mem][3].role = "user"
       /\ JsonDumps(stack[i].result).ok
       /\ mems[stack[i].mem][3].content = JsonDumps(stack[i].result).val

C3_Witness ==
  \E i \in 1..Len(stack) :
    /\ stack[i].pc = "done"
    /\ stack[i].startLen = 0
    /\ stack[i].hook = "-"
    /\ Len(stack[i].said) = 1
    /\ SelectsTerminate(Resolved(stack[i], 1))
    /\ Conf(stack[i].agent).max_iterations = MaxIterations
    /\ Len(mems[stack[i].mem]) = 3

\* C4: once the loop has started, run returns the Memory: no exception
\* leaves it.
C4_RunAlwaysReturns ==
  \A i \in 1..Len(stack) :
    (stack[i].pc = "done" /\ stack[i].raisedBy # "init")
      => stack[i].outcome = "returned"

\* C5: when a run that reached the loop is over, every Capability's
\* terminate hook has been invoked exactly once.
C5_EveryTerminateHookOnce ==
  \A i \in 1..Len(stack) :
    (stack[i].pc = "done" /\ stack[i].raisedBy # "init")
      => \A c \in DOMAIN stack[i].termCalls : stack[i].termCalls[c] = 1

\* C6: when the termination check of an iteration runs, the last two
\* entries of the Memory are the raw response (assistant) and json.dumps of
\* the result (user), in that order; neither exists until dispatch is over.
C6_ResponseThenResult ==
  \A i \in 1..Len(stack) :
    /\ stack[i].pc = "check"
         => /\ Len(mems[stack[i].mem]) >= 2
            /\ mems[stack[i].mem][Len(mems[stack[i].mem]) - 1].role = "assistant"
            /\ mems[stack[i].mem][Len(mems[stack[i].mem]) - 1].content = stack[i].response
            /\ mems[stack[i].mem][Len(mems[stack[i].mem])].role = "user"
            /\ mems[stack[i].mem][Len(mems[stack[i].mem])].content
                 = JsonDumps(stack[i].result).val
            /\ origin[stack[i].mem][Len(mems[stack[i].mem]) - 1] = Tag("assistant", stack[i])
            /\ origin[stack[i].mem][Len(mems[stack[i].mem])] = Tag("result", stack[i])
    /\ stack[i].pc \in {"prompt", "response", "dispatch", "wait", "action"}
         => \A p \in 1..Len(origin[stack[i].mem]) :
              ~ /\ origin[stack[i].mem][p].rid = stack[i].rid
                /\ origin[stack[i].mem][p].iter = stack[i].iteration
                /\ origin[stack[i].mem][p].by \in {"assistant", "result"}

\* the check of a second iteration, after a tool that wrote to the Memory
C6_Witness ==
  \E i \in 1..Len(stack) :
    /\ stack[i].pc = "check"
    /\ stack[i].iteration = 2
    /\ \E p \in 1..Len(origin[stack[i].mem]) : origin[stack[i].mem][p].by = "tool"

IsPrefix(s, t) == Len(s) <= Len(t) /\ \A p \in 1..Len(s) : t[p] = s[p]

\* C7: every step leaves each Memory's earlier entries in place: the old
\* sequence is a prefix of the new one, through loop iterations, tool
\* executions and delegation.
C7_MemoryAppendOnly ==
  [][\A m \in 1..Len(mems) : m <= Len(mems') => IsPrefix(mems[m], mems'[m])]_vars

\* the caller's Memory after a tool wrote to it, a reflection copied into
\* it and a run other than the caller's appended to it
C7_Witness ==
  \E p, q \in 1..Len(origin[1]) :
    /\ origin[1][p].by \in {"tool", "copy"}
    /\ origin[1][q].rid # 1
    /\ origin[1][Len(origin[1])] = Tag("result", stack[1])

NotJson(text) == ~JsonLoads(text).ok
TerminateIsTerminal(actions) ==
  "terminate" \in DOMAIN actions /\ actions["terminate"].terminal

\* C8 as stated: a response that is not valid JSON is the last model call
\* of the run and its iteration the last, for every action registry.
C8_MalformedEndsLoop ==
  \A i \in 1..Len(stack) : \A k \in 1..Len(stack[i].said) :
    NotJson(stack[i].said[k])
      => Len(stack[i].said) = k /\ stack[i].iteration = k

\* C8: when the registry maps terminate to a terminal action, a response
\* that is not valid JSON is the last model call of the run, its iteration
\* the last, and only a terminate hook can make run raise; when terminate
\* is not registered the loop does not leave by break.
C8_MalformedEndsLoopWithTerminate ==
  \A i \in 1..Len(stack) : \A k \in 1..Len(stack[i].said) :
    NotJson(stack[i].said[k])
      => IF TerminateIsTerminal(Conf(stack[i].agent).actions)
         THEN /\ Len(stack[i].said) = k
              /\ stack[i].iteration = k
              /\ stack[i].pc = "done"
                   => stack[i].outcome = "returned" \/ stack[i].hook = "terminate"
         ELSE stack[i].exit # "break"

\* a run ended by break on free text in its second iteration
C8_Witness ==
  \E i \in 1..Len(stack) :
    /\ stack[i].pc = "done"
    /\ stack[i].exit = "break"
    /\ Len(stack[i].said) = 2
    /\ NotJson(stack[i].said[2])

Parsed == {"dispatch", "wait", "action", "check"}

\* C9: for a response that is not valid JSON, parse_response returns
\* {"tool_name": "terminate", "args": {"message": response}} with the
\* response unchanged, and raises nothing.
C9_NotJsonParsesToTerminate ==
  \A i \in 1..Len(stack) :
    (stack[i].pc \in Parsed /\ NotJson(stack[i].response))
      => /\ stack[i].parsed.ok
         /\ stack[i].parsed.val =
              PyDict(<< <<"tool_name", PyStr("terminate")>>,
                        <<"args", PyDict(<< <<"message", PyText(stack[i].response)>> >>)>> >>)

\* prose with a JSON object inside it has been parsed
C9_Witness ==
  \E i \in 1..Len(stack) :
    /\ stack[i].pc = "action"
    /\ stack[i].response = Lit(TProse)
    /\ stack[i].parsed.ok

WireShape(v) ==
  /\ v.t = "dict"
  /\ \/ HasKey(v, "tool_name") /\ HasKey(v, "args")
     \/ /\ HasKey(v, "function")
        /\ Lookup(v, "function").t = "dict"
        /\ HasKey(Lookup(v, "function"), "name")
        /\ HasKey(Lookup(v, "function"), "arguments")

\* C10: for a response that is valid JSON but matches neither wire shape,
\* parse_response returns the terminate invocation with the response as
\* message.
C10_OtherJsonParsesToTerminate ==
  \A i \in 1..Len(stack) :
    ( /\ stack[i].pc \in Parsed
      /\ JsonLoads(stack[i].response).ok
      /\ ~WireShape(JsonLoads(stack[i].response).val) )
      => /\ stack[i].parsed.ok
         /\ stack[i].parsed.val =
              PyDict(<< <<"tool_name", PyStr("terminate")>>,
                        <<"args", PyDict(<< <<"message", PyText(stack[i].response)>> >>)>> >>)

NestedWire(v) ==
  /\ v.t = "dict"
  /\ HasKey(v, "function")
  /\ Lookup(v, "function").t = "dict"
  /\ HasKey(Lookup(v, "function"), "name")
  /\ HasKey(Lookup(v, "function"), "arguments")

\* C11: a response of the nested shape {"function": {"name": X,
\* "arguments": A}} is parsed to {"tool_name": X, "args": A}.
C11_NestedShapeNormalized ==
  \A i \in 1..Len(stack) :
    ( /\ stack[i].pc \in Parsed
      /\ JsonLoads(stack[i].response).ok
      /\ NestedWire(JsonLoads(stack[i].response).val) )
      => /\ stack[i].parsed.ok
         /\ stack[i].parsed.val =
              PyDict(<< <<"tool_name",
                          Lookup(Lookup(JsonLoads(stack[i].response).val, "function"), "name")>>,
                        <<"args",
                          Lookup(Lookup(JsonLoads(stack[i].response).val, "function"),
                                 "arguments")>> >>)

\* the invocation names an action the registry does not hold
Absent(actions, invocation) ==
  /\ invocation.ok
  /\ PySubscript(invocation.val, "tool_name").ok
  /\ PySubscript(invocation.val, "tool_name").val.t = "str"
  /\ \A n \in DOMAIN actions : PySubscript(invocation.val, "tool_name").val.v # Lit(n)
NamesAbsent(f, k) == Absent(Conf(f.agent).actions, ParseResponse(f.said[k]))
Current(f) == f.iteration = Len(f.said) /\ f.iteration >= 1

\* C12: in the iteration of a response that names an action absent from
\* the registry, dispatch gives a result with tool_executed = false, the
\* response and that result are the entries recorded in Memory, and, no
\* hook raising, the run leaves the loop there only when max_iterations is
\* used up: never by break, never by an exception.
C12_UnknownActionGoesOn ==
  \A i \in 1..Len(stack) :
    (Current(stack[i]) /\ NamesAbsent(stack[i], stack[i].iteration))
      => /\ stack[i].pc \in {"action", "check"}
              => /\ stack[i].result.t = "dict"
                 /\ HasKey(stack[i].result, "tool_executed")
                 /\ Lookup(stack[i].result, "tool_executed") = PyBool(FALSE)
                 /\ HasKey(stack[i].result, "error")
         /\ stack[i].pc = "check"
              => /\ mems[stack[i].mem][Len(mems[stack[i].mem]) - 1].content
                      = stack[i].said[stack[i].iteration]
                 /\ mems[stack[i].mem][Len(mems[stack[i].mem])].content
                      = JsonDumps(stack[i].result).val
         /\ (stack[i].pc \in {"finally", "done"} /\ stack[i].hook = "-")
              => /\ stack[i].exit = "exhausted"
                 /\ stack[i].iteration = Conf(stack[i].agent).max_iterations
                 /\ stack[i].outcome # "raised"

\* the iteration after an unknown action is running
C12_Witness ==
  \E i \in 1..Len(stack) :
    /\ stack[i].iteration = 2
    /\ stack[i].pc = "response"
    /\ NamesAbsent(stack[i], 1)
    /\ Len(mems[stack[i].mem]) = 3

\* C13: when generate_response raises, the iteration goes on with the text
\* "Error generating response: " followed by the exception's text; that
\* text is parsed and dispatched, and it is the assistant entry recorded
\* with the result; the exception does not make run raise.
C13_ModelErrorBecomesResponse ==
  \A i \in 1..Len(stack) : \A k \in 1..Len(stack[i].answers) :
    ~stack[i].answers[k].ok
      => /\ stack[i].said[k] = <<"Error generating response: ">> \o stack[i].answers[k].msg
         /\ (stack[i].iteration = k /\ stack[i].pc \in Parsed)
              => /\ stack[i].response = stack[i].said[k]
                 /\ stack[i].parsed.ok
                 /\ Lookup(Lookup(stack[i].parsed.val, "args"), "message")
                      = PyText(stack[i].said[k])
         /\ (stack[i].iteration = k /\ stack[i].pc \in {"action", "check"})
              => stack[i].result.t = "dict" /\ HasKey(stack[i].result, "tool_executed")
         /\ (stack[i].iteration = k /\ stack[i].pc = "check")
              => /\ mems[stack[i].mem][Len(mems[stack[i].mem]) - 1]
                      = Entry("assistant", stack[i].said[k])
                 /\ mems[stack[i].mem][Len(mems[stack[i].mem])]
                      = Entry("user", JsonDumps(stack[i].result).val)
         /\ (stack[i].iteration = k /\ stack[i].pc \in {"finally", "done"}
               /\ stack[i].hook = "-")
              => stack[i].exit \in {"break", "exhausted"} /\ stack[i].outcome # "raised"

\* a failed model call whose error text was recorded, and the loop went on
C13_Witness ==
  \E i \in 1..Len(stack) :
    /\ Len(stack[i].answers) = 2
    /\ ~stack[i].answers[1].ok
    /\ mems[stack[i].mem][2].content = <<"Error generating response: ", "timeout">>
    /\ stack[i].pc = "check"

(***************************************************************************)
(* Properties of the Environment entry points (EnvSpec)                    *)
(***************************************************************************)
DirectExecuteAction(envs) ==
  call.pc = "done" /\ call.outer = "execute_action" /\ call.env \in envs

\* C14: when execute_action of the base or the context-injecting
\* Environment meets an exception of the tool call (the body raising, or
\* the arguments not fitting the function), it returns a record with
\* tool_executed = false and the error text; it does not raise.
C14_ToolErrorsBecomeFailureResults ==
  (DirectExecuteAction({"Environment", "ActionContextEnvironment"}) /\ ~call.raised.ok)
    => /\ call.result.ok
       /\ call.result.val.t = "dict"
       /\ Lookup(call.result.val, "tool_executed") = PyBool(FALSE)
       /\ Lookup(call.result.val, "error") = PyText(call.raised.msg)

\* the tool body of a base Environment call raised and a record came back
C14_Witness ==
  /\ DirectExecuteAction({"Environment"})
  /\ call.runs = 1
  /\ ~call.raised.ok
  /\ call.result.ok

\* C15: every record an Environment variant returns keeps the base
\* contract: tool_executed = true comes with result and timestamp,
\* tool_executed = false with error and traceback.
C15_BaseResultContract ==
  (call.pc = "done" /\ call.entry = "execute_action" /\ call.result.ok)
    => IF Lookup(call.result.val, "tool_executed") = PyBool(TRUE)
       THEN HasKey(call.result.val, "result") /\ HasKey(call.result.val, "timestamp")
       ELSE HasKey(call.result.val, "error") /\ HasKey(call.result.val, "traceback")

\* the function of the call was reached through the context-injecting
\* Environment with these keyword arguments
ContextCall ==
  /\ call.pc \in {"body", "done"}
  /\ call.entry = "execute_action"
  /\ call.env = "ActionContextEnvironment"
  /\ call.args.t = "dict"
Declares(name) == name \in ToolParams[call.tool].all

\* C16: the keyword arguments ActionContextEnvironment.execute_action
\* passes hold the live Action Context under action_context iff the tool
\* declares that parameter, and the value of property k under _k iff the
\* tool declares _k; every other argument is the one the caller gave.
C16_InjectionIffDeclared ==
  ContextCall
    => /\ Declares("action_context")
            => /\ "action_context" \in DOMAIN call.kwargs.val
               /\ call.kwargs.val["action_context"] = LiveContext
       /\ \A k \in Keys(call.properties) :
            Declares("_" \o k)
              => /\ ("_" \o k) \in DOMAIN call.kwargs.val
                 /\ call.kwargs.val["_" \o k] = Lookup(call.properties, k)
       /\ \A n \in DOMAIN call.kwargs.val :
            ~Declares(n)
              => /\ HasKey(call.args, n)
                 /\ call.kwargs.val[n] = Lookup(call.args, n)
       /\ \A n \in DOMAIN call.kwargs.val :
            (n # "action_context" /\ \A k \in Keys(call.properties) : n # "_" \o k)
              => /\ HasKey(call.args, n)
                 /\ call.kwargs.val[n] = Lookup(call.args, n)

\* translate(text, _target_language) ran with the property's value, and
\* without an action_context
C16_Witness ==
  /\ ContextCall
  /\ call.tool = "translate"
  /\ call.runs = 1
  /\ call.kwargs.val["_target_language"] = PyStr("python")
  /\ "action_context" \notin DOMAIN call.kwargs.val

ReviewedCall ==
  /\ call.pc = "done"
  /\ call.outer \in {"execute_with_ai_review", "_execute_with_review_loop"}
  /\ NeedsReview(call.tool)
  /\ call.args = PyDict(<< >>)

\* C17: a call for an action of the AI-review set ends with the action
\* executed exactly max_review_iterations times and a returned record with
\* tool_executed = false, whenever it does not end approved.
C17_RejectedAttemptsReachCap ==
  ReviewedCall
    => /\ call.runs = call.cap
       /\ call.result.ok
       /\ Lookup(call.result.val, "tool_executed") = PyBool(FALSE)

\* C18: a call for an action of the AI-review set that is over raised
\* nothing, for any cap: it returned a record, and a record with
\* tool_executed = false carries last_attempt and final_feedback.
C18_ReviewLoopReturnsRecord ==
  ReviewedCall
    => /\ call.raised.ok
       /\ call.result.ok
       /\ Lookup(call.result.val, "tool_executed") = PyBool(FALSE)
            => /\ HasKey(call.result.val, "last_attempt")
               /\ HasKey(call.result.val, "final_feedback")


\* ---- _ai_review_content ----

ReviewAnswered ==
  /\ call.pc = "done"
  /\ call.entry = "_ai_review_content"
  /\ call.review.ok

Verdict(key) == Lookup(call.result.val, key)

\* the first position of the marker as written, 0 when it is absent
MarkerAt(text) ==
  IF \E i \in 1..Len(text) : text[i] = "FEEDBACK:"
  THEN CHOOSE i \in 1..Len(text) :
         text[i] = "FEEDBACK:" /\ \A j \in 1..(i - 1) : text[j] # "FEEDBACK:"
  ELSE 0

AfterMarker(text) == SubSeq(text, MarkerAt(text) + 1, Len(text))

\* f is rest without the blanks at its two ends
Trims(f, rest) ==
  /\ f = << >> \/ (f[1] # " " /\ f[Len(f)] # " ")
  /\ \E a \in 0..Len(rest) :
       /\ a + Len(f) <= Len(rest)
       /\ \A j \in 1..Len(rest) :
            rest[j] = IF j <= a \/ j > a + Len(f) THEN " " ELSE f[j - a]

FeedbackAsStated ==
  IF MarkerAt(call.review.val) # 0
  THEN \E f \in Texts(MaxPieces) :
         Verdict("feedback") = PyText(f) /\ Trims(f, AfterMarker(call.review.val))
  ELSE Verdict("feedback") = PyText(call.review.val)

\* C19 as stated: a reviewer response is approved only if it contains the
\* literal token APPROVE, and the feedback is the text after the literal
\* FEEDBACK: marker, or the whole response when the marker is absent.
C19_ApprovedOnlyWithLiteralToken ==
  ReviewAnswered =>
    /\ Verdict("approved") = PyBool(TRUE) => ApprovedAsWritten(call.review.val)
    /\ FeedbackAsStated

\* C19 amended: a reviewer response is approved exactly when it contains
\* APPROVE in any letter case, also inside a longer word; the feedback is the
\* text after the first FEEDBACK: marker written in capitals, without the
\* blanks at its ends, or the whole response unchanged when that marker is
\* absent.
C19_ApprovedIffAnyCaseToken ==
  ReviewAnswered =>
    /\ Verdict("approved") = PyBool(\E i \in 1..Len(call.review.val) :
                                      call.review.val[i]
                                        \in {"APPROVE", "approve", "Disapproved"})
    /\ FeedbackAsStated
    /\ Verdict("full_response") = PyText(call.review.val)

C19_Witness ==
  /\ ReviewAnswered
  /\ ~ApprovedAsWritten(call.review.val)
  /\ Verdict("approved") = PyBool(TRUE)
  /\ MarkerAt(call.review.val) # 0
  /\ Verdict("feedback") # PyText(AfterMarker(call.review.val))



\* ---- ActionTransaction ----

AddAfterCommit ==
  /\ tx.committed = PyBool(TRUE)
  /\ tx'.op = "add"
  /\ tx' # tx

\* C20: after commit() has been called on a transaction, every later add is
\* rejected with an error and leaves the staged actions unchanged.
C20_NoAddAfterCommit ==
  [][AddAfterCommit => ~tx'.out.ok /\ tx'.actions = tx.actions]_vars



\* the actions whose execute_func, and whose reverse_func, the operation called
Ran(t) == SelectSeq(t.calls, LAMBDA c : c[1] = "execute_func")
Undone(t) == SelectSeq(t.calls, LAMBDA c : c[1] = "reverse_func")
Targets(cs) == [i \in 1..Len(cs) |-> cs[i][2]]
Reverse(q) == [i \in 1..Len(q) |-> q[Len(q) + 1 - i]]
Range(q) == { q[i] : i \in 1..Len(q) }

\* a step of execute that ends with an exception
ExecuteFailed ==
  /\ tx'.op = "execute"
  /\ tx' # tx
  /\ ~tx'.out.ok

\* what executed holds when the execute_func of that step raises
ExecutedAtFailure ==
  tx.executed \o SubSeq(Targets(Ran(tx')), 1, Len(Ran(tx')) - 1)

\* execute of a transaction that stages A then B, where B's execution raises
SecondOfTwoFails ==
  /\ ExecuteFailed
  /\ tx.executed = << >>
  /\ Len(tx.actions) = 2
  /\ tx.actions[1][1] \notin tx.fails
  /\ tx.actions[2][1] \in tx.fails
  /\ tx.stuck = {}

\* C21: with staged actions A then B, if B's execution raises, rollback
\* invokes undo(B) and then undo(A), in that order, before the error reaches
\* the caller.
C21_UndoFailedThenEarlier ==
  [][SecondOfTwoFails =>
       /\ Targets(Undone(tx')) = <<tx.actions[2][1], tx.actions[1][1]>>
       /\ tx'.out = ExecuteFuncError]_vars

\* C22: when execute fails at a staged action, rollback invokes the inverse
\* of each entry of executed once, newest first; if every inverse succeeds,
\* executed is then empty, the staged actions are unchanged and the original
\* error is raised to the caller.
C22_RollbackNewestFirst ==
  [][ExecuteFailed =>
       /\ \E n \in 0..Len(ExecutedAtFailure) :
            Targets(Undone(tx')) = SubSeq(Reverse(ExecutedAtFailure), 1, n)
       /\ tx'.actions = tx.actions
       /\ (\A a \in Range(ExecutedAtFailure) : a \notin tx.stuck) =>
            /\ Targets(Undone(tx')) = Reverse(ExecutedAtFailure)
            /\ tx'.executed = << >>
            /\ tx'.out = ExecuteFuncError]_vars

C22_Witness ==
  /\ tx.op = "execute"
  /\ tx.out = ExecuteFuncError
  /\ Len(Undone(tx)) = 2
  /\ Undone(tx)[1] # Undone(tx)[2]
  /\ tx.executed = << >>

\* a step of rollback, or of execute, in which an inverse raises
InverseRaises ==
  /\ tx'.op \in {"execute", "rollback"}
  /\ tx' # tx
  /\ tx'.out = ReverseFuncError

ExecutedAtRollback ==
  IF tx'.op = "execute" THEN ExecutedAtFailure ELSE tx.executed

\* C23: an inverse that raises during rollback propagates out of rollback
\* and out of execute in place of the original error; the inverses of the
\* entries executed before it are not invoked and executed is not cleared.
C23_InverseErrorPropagates ==
  [][/\ InverseRaises =>
          /\ Undone(tx') # << >>
          /\ Undone(tx')[Len(Undone(tx'))][2] \in tx.stuck
          /\ \A j \in 1..(Len(Undone(tx')) - 1) : Undone(tx')[j][2] \notin tx.stuck
          /\ Targets(Undone(tx')) =
               SubSeq(Reverse(ExecutedAtRollback), 1, Len(Undone(tx')))
          /\ tx'.executed = ExecutedAtRollback
     /\ (/\ tx'.op \in {"execute", "rollback"}
         /\ tx' # tx
         /\ \E c \in Range(Undone(tx')) : c[2] \in tx.stuck) => InverseRaises]_vars

C23_Witness ==
  /\ tx.op = "execute"
  /\ tx.out = ReverseFuncError
  /\ Len(tx.executed) = 2
  /\ Len(Undone(tx)) = 1
  /\ tx.executed[1] # tx.executed[2]



\* ---- ActionRegistry ----

\* a register step for a name the registry already holds
ReRegistered ==
  /\ reg'.op = "register"
  /\ reg'.given.name \in DOMAIN reg.actions

Listed(r, action) ==
  \E i \in 1..Len(RegistryGetActions(r)) : RegistryGetActions(r)[i] = action

Got(r, name) == RegistryGetAction(r.actions, PyStr(name))

\* C24: action names are unique keys of a registry: after register(a1) then
\* register(a2) with the same name, get_action(name) returns a2,
\* get_actions() holds a2 and not a1, and the number of registered actions
\* did not grow.
C24_SameNameReplaces ==
  [][/\ \A i, j \in 1..Len(RegistryGetActions(reg')) :
          RegistryGetActions(reg')[i].name = RegistryGetActions(reg')[j].name => i = j
     /\ ReRegistered =>
          /\ Got(reg', reg'.given.name).ok
          /\ Got(reg', reg'.given.name).val = reg'.given
          /\ Listed(reg', reg'.given)
          /\ reg.actions[reg'.given.name] # reg'.given =>
               ~Listed(reg', reg.actions[reg'.given.name])
          /\ Len(RegistryGetActions(reg')) = Len(RegistryGetActions(reg))
          /\ Cardinality(DOMAIN reg'.actions) = Cardinality(DOMAIN reg.actions)]_vars

C24_Witness ==
  /\ reg.pc = "open"
  /\ reg.op = "register"
  /\ reg.kind = "DecoratorActionRegistry"
  /\ Len(reg.order) >= 3
  /\ reg.order[2] = "terminate"
  /\ reg.given = Action("terminate", FALSE)
  /\ reg.actions["terminate"] = reg.given

\* a get_action step for a name the registry does not hold
AskedUnregistered ==
  /\ reg'.op = "get_action"
  /\ ~(reg'.asked.t = "str" /\ reg'.asked.v[1] \in DOMAIN reg.actions)

\* C25: get_action for a name that is not registered fails with an error,
\* never returns a null or absent value, and leaves the registry unchanged.
C25_UnknownNameRaises ==
  [][AskedUnregistered =>
       /\ ~reg'.out.ok
       /\ reg'.actions = reg.actions
       /\ reg'.order = reg.order
       /\ reg'.terminate_tool.t = reg.terminate_tool.t]_vars

C25_Witness ==
  /\ reg.pc = "open"
  /\ reg.op = "get_action"
  /\ reg.asked = PyStr("ghost")
  /\ ~reg.out.ok
  /\ Len(reg.order) >= 2

\* C26: a DecoratorActionRegistry built from the catalog by tag and/or name
\* filtering does not contain 'terminate', whatever tags are requested, until
\* register_terminate_tool() is called; after that call it contains
\* 'terminate' with the catalog's terminal flag.
C26_TerminateOnlyWhenRegistered ==
  /\ (/\ reg.pc = "open"
      /\ reg.kind = "DecoratorActionRegistry"
      /\ reg.op = "__init__") => "terminate" \notin DOMAIN reg.actions
  /\ (/\ reg.pc = "open"
      /\ reg.op = "register_terminate_tool"
      /\ reg.out.ok) => /\ "terminate" \in DOMAIN reg.actions
                        /\ reg.actions["terminate"].terminal



\* ---- delegation tools ----

\* the step in which the delegation tool `tool` gets its sub-agent's Memory
\* back and returns
Returns(tool) ==
  /\ depth > 1
  /\ top.pc = "done"
  /\ top.outcome = "returned"
  /\ stack[depth - 1].pend = tool
  /\ Len(stack') = depth - 1

\* the step in which the delegation tool `tool` calls agent_run
Calls(tool) ==
  /\ depth > 0
  /\ top.pc = "dispatch"
  /\ top.pre.run
  /\ top.pre.tool = tool
  /\ Len(stack') = depth + 1

\* the dict the tool returned to the frame f, under format_result
ToolAnswer(f) == Lookup(f.result, "result")
Answered(f, key) ==
  /\ f.pc = "action"
  /\ f.result.t = "dict"
  /\ HasKey(f.result, "result")
  /\ ToolAnswer(f).t = "dict"
  /\ HasKey(ToolAnswer(f), key)

\* C27: after call_agent_with_reflection whose sub-agent run ends with N
\* Memory entries, the caller's Memory is its previous entries, unchanged and
\* in order, followed by N entries, one per sub-agent entry in the
\* sub-agent's order, each tagged agent_source = the sub-agent's name;
\* memories_added is N.
C27_ReflectionAppendsCopies ==
  [][Returns("call_agent_with_reflection") =>
       LET c == stack[depth - 1].mem
           items == mems[top.mem]
           old == mems[c]
           new == mems'[c]
       IN /\ Len(new) = Len(old) + Len(items)
          /\ SubSeq(new, 1, Len(old)) = old
          /\ \A k \in 1..Len(items) :
               /\ new[Len(old) + k].content = items[k].content
               /\ new[Len(old) + k].agent_source = top.agent
          /\ Lookup(ToolAnswer(stack'[depth - 1]), "memories_added")
               = PyNum(Len(items))]_vars

C27_Witness ==
  \E k \in 1..depth :
    /\ Answered(stack[k], "memories_added")
    /\ Lookup(ToolAnswer(stack[k]), "memories_added") = PyNum(3)
    /\ Len(mems[stack[k].mem]) = 4
    /\ \A j \in 2..4 : mems[stack[k].mem][j].agent_source = "sub"
    /\ mems[stack[k].mem][1].agent_source = "-"

\* C28: call_agent runs the sub-agent on a fresh empty Memory distinct from
\* the caller's, returns only the content of the sub-agent's final entry, and
\* leaves the caller's Memory unchanged for the duration of the call.
C28_IsolatedCall ==
  [][/\ Calls("call_agent") =>
          /\ stack'[depth + 1].mem \notin 1..Len(mems)
          /\ mems'[stack'[depth + 1].mem] = << >>
     /\ \A k \in 1..depth :
          stack[k].pend = "call_agent" => mems'[stack[k].mem] = mems[stack[k].mem]
     /\ (Returns("call_agent") /\ mems[top.mem] # << >>) =>
          /\ Keys(ToolAnswer(stack'[depth - 1]))
               = {"success", "agent", "result", "memory_items"}
          /\ Lookup(ToolAnswer(stack'[depth - 1]), "result")
               = PyText(mems[top.mem][Len(mems[top.mem])].content)]_vars

C28_Witness ==
  \E k \in 1..depth :
    /\ Answered(stack[k], "memory_items")
    /\ ~HasKey(ToolAnswer(stack[k]), "memory_id")
    /\ Lookup(ToolAnswer(stack[k]), "memory_items") = PyNum(3)
    /\ Len(mems[stack[k].mem]) = 1

\* C29: hand_off_to_agent runs the sub-agent on the caller's own Memory
\* object: every entry the sub-agent appends is in the caller's Memory after
\* the call, the caller's earlier entries are part of the sub-agent's
\* prompts, and the Memory the sub-run returns is the caller's Memory itself.
C29_HandOffSharesMemory ==
  [][/\ Calls("hand_off_to_agent") =>
          /\ stack'[depth + 1].mem = top.mem
          /\ Len(mems') = Len(mems)
          /\ stack'[depth + 1].startLen = Len(mems[top.mem])
     /\ Returns("hand_off_to_agent") =>
          /\ top.mem = stack[depth - 1].mem
          /\ mems'[top.mem] = mems[top.mem]
          /\ Lookup(ToolAnswer(stack'[depth - 1]), "memory_id") = PyNum(top.mem)
     /\ \A k \in 2..depth :
          (stack[k - 1].pend = "hand_off_to_agent" /\ stack[k].said # << >>) =>
             /\ Len(stack[k].prompted) >= stack[k].startLen
             /\ \A j \in 1..stack[k].startLen :
                  stack[k].prompted[j].content = mems[stack[k].mem][j].content]_vars

C29_Witness ==
  \E k \in 1..depth :
    /\ Answered(stack[k], "memory_id")
    /\ Lookup(ToolAnswer(stack[k]), "memory_id") = PyNum(stack[k].mem)
    /\ Len(mems[stack[k].mem]) = 4
    /\ stack[k].iteration = 1
    /\ stack[k].said[1] = Lit(THand)

\* the selection answers the schema of the tool: a list of string ids and a
\* string rationale
Conforms(selection) ==
  /\ selection.t = "dict"
  /\ HasKey(selection, "selected_memories")
  /\ HasKey(selection, "reasoning")
  /\ Lookup(selection, "reasoning").t = "str"
  /\ Lookup(selection, "selected_memories").t = "list"
  /\ \A i \in 1..Len(Lookup(selection, "selected_memories").v) :
       Lookup(selection, "selected_memories").v[i].t = "str"

\* the ids a conforming selection names
NamedIds(selection) ==
  { Lookup(selection, "selected_memories").v[i] :
      i \in 1..Len(Lookup(selection, "selected_memories").v) }

\* the entries of items whose synthetic id is named, in their order
RECURSIVE NamedEntries(_, _)
NamedEntries(items, named) ==
  IF items = << >> THEN << >>
  ELSE IF PyStr("mem_" \o ToString(Len(items) - 1)) \in named
  THEN Append(NamedEntries(SubSeq(items, 1, Len(items) - 1), named),
              items[Len(items)])
  ELSE NamedEntries(SubSeq(items, 1, Len(items) - 1), named)

OnlyHandOffs(f) ==
  /\ f.said # << >>
  /\ \A i \in 1..Len(f.said) : f.said[i] \in {Lit(THand), Lit(TBack)}
  /\ \A j \in 1..Len(mems[f.mem]) :
       mems[f.mem][j].role = "assistant"
         => mems[f.mem][j].content \in {Lit(THand), Lit(TBack)}
  /\ \E j \in 1..Len(mems[f.mem]) :
       /\ origin[f.mem][j].by = "assistant"
       /\ origin[f.mem][j].rid # f.rid
       /\ mems[f.mem][j].content = Lit(TBack)

\* C31 as stated: when the models of two registered agents always delegate,
\* the runs nest without bound and the outermost run never completes.
C31_MutualDelegationNeverCompletes ==
  ~(depth = 1 /\ top.pc = "done" /\ OnlyHandOffs(top))

\* C31 as amended: a run started by a delegation tool has no agent_registry
\* in its Action Context, so runs never nest deeper than two, the number of
\* runs started is at most one per iteration of the outermost run, and a
\* sub-run whose model always delegates ends at its iteration cap.
C31_NestingBounded ==
  /\ depth <= 2
  /\ nruns <= 1 + stack[1].iteration
  /\ \A k \in 2..depth :
       /\ "agent_registry" \notin stack[k].ctxKeys
       /\ stack[k].pend = "-"
       /\ stack[k].iteration <= SubIterations

C31_Witness ==
  /\ depth = 2
  /\ top.agent = "sub"
  /\ top.pc = "finally"
  /\ top.exit = "exhausted"
  /\ top.said = << Lit(TBack) >>
  /\ stack[1].said = << Lit(THand) >>
  /\ stack[1].pend = "hand_off_to_agent"

\* the entry point the stated preference order selects among those the
\* Environment class exposes, and the arguments it declares after self
PreferredEntryPoint(env) ==
  CASE env = "ActionContextEnvironment" -> [method |-> "execute_action", declared |-> 3]
    [] env = "AIReviewBDDEnvironment" -> [method |-> "execute_with_ai_review", declared |-> 3]
    [] OTHER -> [method |-> "execute_action", declared |-> 2]

\* C32: for a response that resolves to a registered action, dispatch
\* selects the entry point by the order context-injecting execute_action,
\* AI-review, base execute_action, and calls it with the argument list that
\* entry point declares, so the call itself does not fail.
C32_DispatchCallsDeclaredArguments ==
  \A k \in 1..depth :
    (stack[k].pc = "dispatch"
       /\ GetAction(Conf(stack[k].agent).actions, stack[k].response).ok) =>
      /\ DispatchRoute(Conf(stack[k].agent).environment).method
           = PreferredEntryPoint(Conf(stack[k].agent).environment).method
      /\ DispatchRoute(Conf(stack[k].agent).environment).given
           = PreferredEntryPoint(Conf(stack[k].agent).environment).declared
      /\ stack[k].pre.result # HandleFailure(ArityError, stack[k].response)

\* C33: with the base Environment, dispatch of a response that resolves to a
\* registered action runs the action's function, once and with exactly the
\* parsed arguments, and a normal return is recorded with tool_executed true.
C33_BaseDispatchRunsTool ==
  \A k \in 1..depth :
    (Conf(stack[k].agent).environment = "Environment"
       /\ GetAction(Conf(stack[k].agent).actions, stack[k].response).ok) =>
      /\ stack[k].pc = "dispatch" =>
           /\ stack[k].pre.run
           /\ stack[k].pre.args
                = Lookup(GetAction(Conf(stack[k].agent).actions,
                                   stack[k].response).val.invocation, "args")
      /\ (stack[k].pc = "action" /\ stack[k].pre.tool = "terminate") =>
           Lookup(stack[k].result, "tool_executed") = PyBool(TRUE)

\* the iterations 1..n in order
Upto(n) == [i \in 1..n |-> i]

\* the staged commit of the last hook call was reported as failed
CommitFailed(f) ==
  /\ f.review.ok
  /\ f.review.val.t = "dict"
  /\ (HasKey(f.review.val, "success") => Lookup(f.review.val, "success") = PyBool(FALSE))

\* the run f has ended an iteration or left the loop by break or by the cap
AtBoundary(f) ==
  \/ f.pc = "head"
  \/ f.pc \in {"finally", "done"} /\ f.exit \in {"break", "exhausted"}

\* C34 as stated: with review_and_execute_staged exposed and a non-empty
\* current_task_id, the hook has been invoked exactly once in every
\* iteration the run has been through, and after a failed staged commit the
\* loop goes on.
C34_StagedHookOncePerIteration ==
  \A k \in 1..depth :
    StagedHookDue(Conf(stack[k].agent)) =>
      /\ AtBoundary(stack[k]) => stack[k].staged = Upto(stack[k].iteration)
      /\ (stack[k].staged # << >> /\ CommitFailed(stack[k])
            /\ stack[k].staged[Len(stack[k].staged)] = stack[k].iteration)
           => (stack[k].pc = "head" \/ stack[k].exit = "exhausted")

\* the hook calls a run shows at a boundary: one per iteration, but none for
\* the iteration that stopped on a terminal action
StagedCalls(f) ==
  IF f.exit = "break" THEN Upto(f.iteration - 1) ELSE Upto(f.iteration)

\* C34 as amended: with review_and_execute_staged exposed and a non-empty
\* current_task_id, the hook is invoked exactly once in every iteration that
\* does not stop on a terminal action, after the two Memory entries of that
\* iteration and after the termination check, and never in the iteration
\* that breaks; when it returns a dict, whatever its success, the loop goes
\* to the next iteration; when it raises or returns a value without get, the
\* loop ends through except Exception.
C34_StagedHookAfterCheck ==
  [][(depth = 1 /\ StagedHookDue(Conf(top.agent)) /\ Len(stack') = 1) =>
       /\ AtBoundary(stack'[1]) => stack'[1].staged = StagedCalls(stack'[1])
       /\ top.pc = "check" =>
            /\ stack'[1].staged = top.staged
            /\ stack'[1].pc = IF ShouldTerminate(Conf(top.agent).actions, top.response)
                              THEN "finally" ELSE "staged"
       /\ top.pc = "staged" =>
            /\ stack'[1].staged = Append(top.staged, top.iteration)
            /\ Len(origin[top.mem]) >= 2
            /\ origin[top.mem][Len(origin[top.mem]) - 1] = Tag("assistant", top)
            /\ origin[top.mem][Len(origin[top.mem])] = Tag("result", top)
            /\ (stack'[1].review.ok /\ stack'[1].review.val.t = "dict") =>
                 /\ stack'[1].pc = "head"
                 /\ stack'[1].exit = top.exit
            /\ ~(stack'[1].review.ok /\ stack'[1].review.val.t = "dict") =>
                 /\ stack'[1].pc = "finally"
                 /\ stack'[1].exit = "exception"
       /\ top.pc \notin {"check", "staged"} => stack'[1].staged = top.staged
       /\ (top.pc = "head" /\ top.iteration < Conf(top.agent).max_iterations) =>
            stack'[1].pc = "prompt"]_vars

\* a failed staged commit in the first iteration, the second iteration run
C34_Witness ==
  /\ depth = 1
  /\ StagedHookDue(Conf(top.agent))
  /\ top.pc = "finally"
  /\ top.exit = "break"
  /\ top.iteration = 2
  /\ top.staged = << 1 >>
  /\ CommitFailed(top)
  /\ Len(mems[top.mem]) = 5

\* the response of the run f resolves to a registered terminal action
ResolvesTerminal(f) ==
  /\ GetAction(Conf(f.agent).actions, f.response).ok
  /\ GetAction(Conf(f.agent).actions, f.response).val.action.terminal

\* the result of the run f says the tool was not executed
NotExecuted(f) ==
  /\ f.result.t = "dict"
  /\ HasKey(f.result, "tool_executed")
  /\ Lookup(f.result, "tool_executed") = PyBool(FALSE)

\* C35: when the response resolves to a terminal action whose tool raised or
\* was never executed (result tool_executed = false), the run still ends in
\* that iteration: the termination check breaks, no later iteration starts
\* and no further response is asked for.
C35_TerminalStopsWithoutExecution ==
  [][\A k \in 1..depth :
       (stack[k].pc \in {"action", "check"} /\ ResolvesTerminal(stack[k])
          /\ NotExecuted(stack[k]) /\ Len(stack') >= k) =>
         /\ stack'[k].iteration = stack[k].iteration
         /\ stack'[k].said = stack[k].said
         /\ stack'[k].pc \in {"action", "check", "finally"}
         /\ stack[k].pc = "check" =>
              /\ stack'[k].pc = "finally"
              /\ stack'[k].exit = "break"
              /\ mems'[stack[k].mem] = mems[stack[k].mem]]_vars

\* a terminate that was never executed has ended the run by break
C35_Witness ==
  /\ depth = 1
  /\ top.pc = "done"
  /\ top.exit = "break"
  /\ top.iteration = 1
  /\ Conf(top.agent).max_iterations = 2
  /\ NotExecuted(top)
  /\ top.response = Lit(TTerm)

\* the names under which the context-injecting Environment has a value to
\* inject for the tool of the call
InjectedNames ==
  {n \in {"action_context"} : Declares(n)}
    \cup {n \in {"_" \o k : k \in Keys(call.properties)} : Declares(n)}

\* the value of the Action Context for an injected name
ContextValue(n) ==
  IF n = "action_context" THEN LiveContext
  ELSE Lookup(call.properties, CHOOSE k \in Keys(call.properties) : n = "_" \o k)

\* C36: in ActionContextEnvironment.execute_action, when the caller's args
\* hold a value under action_context, or under _k for a property k of the
\* Action Context, and the tool declares that parameter, the tool is called
\* with the Action Context's value and not with the caller's; the caller's
\* args mapping is the same after the call as before.
C36_InjectedValueWins ==
  ContextCall =>
    /\ \A n \in InjectedNames :
         HasKey(call.passed, n) =>
           /\ n \in DOMAIN call.kwargs.val
           /\ call.kwargs.val[n] = ContextValue(n)
           /\ Lookup(call.passed, n) # ContextValue(n)
                => call.kwargs.val[n] # Lookup(call.passed, n)
    /\ call.args = call.passed

\* translate ran with the property although the caller gave another value
C36_Witness ==
  /\ ContextCall
  /\ call.pc = "done"
  /\ call.tool = "translate"
  /\ call.runs = 1
  /\ HasKey(call.passed, "_target_language")
  /\ HasKey(call.properties, "target_language")
  /\ Lookup(call.passed, "_target_language") = PyStr("fr")
  /\ call.kwargs.val["_target_language"] = PyStr("python")
  /\ call.args = call.passed

\* the step in which the loop of the innermost run records its iteration
Records ==
  /\ depth > 0
  /\ top.pc = "action"
  /\ Len(stack') = depth
  /\ mems' # mems

\* the entry at place j of the Memory m was appended by a tool that the
\* iteration of f ran: a file-tool note, a copy made by a delegation tool, or
\* an entry of the sub-agent's run
ByToolOf(f, m, j) ==
  \/ /\ origin[m][j].by = "tool"
     /\ origin[m][j].rid = f.rid
     /\ origin[m][j].iter = f.iteration
     /\ mems[m][j] = ListFilesEntry
  \/ /\ origin[m][j].by = "copy"
     /\ origin[m][j].rid = f.rid
     /\ origin[m][j].iter = f.iteration
     /\ mems[m][j].agent_source # "-"
  \/ /\ origin[m][j].by \in {"task", "assistant", "result", "tool"}
     /\ origin[m][j].rid > f.rid
     /\ f.pre.tool = "hand_off_to_agent"

\* C37: when the loop records an iteration, the Memory holds the entries the
\* prompt was built from, then every entry a tool appended while it executed
\* (file-tool notes, the entries of a sub-agent run through hand_off_to_agent,
\* the copies of call_agent_with_reflection), and only then the assistant
\* entry with the response that requested the tool.
C37_ToolEntriesBeforeResponse ==
  [][Records =>
       /\ Len(top.prompted) <= Len(mems[top.mem])
       /\ FormatMemory(SubSeq(mems[top.mem], 1, Len(top.prompted))) = top.prompted
       /\ \A j \in (Len(top.prompted) + 1)..Len(mems[top.mem]) :
            ByToolOf(top, top.mem, j)
       /\ \A j \in 1..Len(mems[top.mem]) : origin[top.mem][j] # Tag("assistant", top)
       /\ SubSeq(mems'[top.mem], 1, Len(mems[top.mem])) = mems[top.mem]
       /\ mems'[top.mem][Len(mems[top.mem]) + 1] = Entry("assistant", top.response)
       /\ origin'[top.mem][Len(mems[top.mem]) + 1] = Tag("assistant", top)]_vars

\* a hand-off and a file listing: the sub-agent's entries and the note stand
\* before the responses that asked for them
C37_Witness ==
  /\ depth = 1
  /\ top.iteration = 2
  /\ top.pc = "check"
  /\ top.said = << Lit(THand), Lit(TList) >>
  /\ Len(mems[1]) = 9
  /\ origin[1][2].rid = 2
  /\ origin[1][4].rid = 2
  /\ mems[1][5] = Entry("assistant", Lit(THand))
  /\ mems[1][7] = ListFilesEntry
  /\ mems[1][8] = Entry("assistant", Lit(TList))

\* the Action Context of a run that a delegation tool started
StartedByDelegation(k) == k >= 2 /\ stack[k].pc # "start"

\* the run f is about to execute a delegation tool
AsksDelegation(f) ==
  /\ f.pc = "dispatch"
  /\ f.pre.run
  /\ f.pre.tool \in DelegationTools \cup {SelectiveTool}

\* C38: a run started by a delegation tool has an Action Context with the
\* keys memory, llm and environment_type and nothing else, whatever the
\* caller's context held; a delegation tool dispatched inside it fails at the
\* registry lookup, its result is the failure, and no further run starts.
C38_SubRunContextIsFresh ==
  [][/\ \A k \in 1..Len(stack') :
          (k >= 2 /\ stack'[k].pc # "start")
            => /\ stack'[k].ctxKeys = {"memory", "llm", "environment_type"}
               /\ stack'[k].ctxKeys \cap stack'[1].props = {}
     /\ (depth >= 2 /\ AsksDelegation(top))
          => /\ Len(stack') = depth
             /\ nruns' = nruns
             /\ stack'[depth].pc = "action"
             /\ stack'[depth].result = ContextFailure(
                  Raise("ValueError", Lit("No agent registry found in action context.")))]_vars

\* the caller's context has a registry and a target language, the sub-run
\* asked for a hand-off and got the failure
C38_Witness ==
  /\ depth = 2
  /\ StartedByDelegation(2)
  /\ stack[1].ctxKeys = {"memory", "llm", "environment_type", "agent_registry",
                         "target_language"}
  /\ top.pc = "action"
  /\ top.pre.run
  /\ top.pre.tool = "hand_off_to_agent"
  /\ top.result = ContextFailure(
       Raise("ValueError", Lit("No agent registry found in action context.")))
  /\ nruns = 2

\* the entry at place j of the Memory m was appended by the loop of the run f
LoopEntry(f, m, j) ==
  /\ origin[m][j].rid = f.rid
  /\ origin[m][j].by \in {"assistant", "result"}

\* C39: between iterations and once the loop is over, every assistant entry
\* the loop of a run appended is followed, with no other entry of that loop
\* in between, by the user entry with json.dumps of the result of the same
\* iteration.
C39_UpdateMemoryNeverHalfDone ==
  \A i \in 1..Len(stack) :
    stack[i].pc \in {"head", "finally", "done"}
      => \A j \in 1..Len(mems[stack[i].mem]) :
           (LoopEntry(stack[i], stack[i].mem, j) /\ origin[stack[i].mem][j].by = "assistant")
             => \E r \in (j + 1)..Len(mems[stack[i].mem]) :
                  /\ origin[stack[i].mem][r] =
                       [origin[stack[i].mem][j] EXCEPT !.by = "result"]
                  /\ mems[stack[i].mem][r].role = "user"
                  /\ \A p \in (j + 1)..(r - 1) : ~LoopEntry(stack[i], stack[i].mem, p)

\* the places of the caller's entries whose synthetic id the selection names
SelectedPlaces(items, selection) ==
  { j \in 1..Len(items) : PyStr("mem_" \o ToString(j - 1)) \in SelectedIds(selection).val }

\* the sub-agent's run appended its task and the entries of its loop to m
\* after the first s entries
AppendedBySubRun(f, m, s) ==
  /\ Len(mems[m]) > s
  /\ origin[m][s + 1] = [by |-> "task", rid |-> f.rid, iter |-> 0]
  /\ \A j \in 1..Len(mems[m]) : (origin[m][j].rid = f.rid) <=> (j > s)

=============================================================================
